---------------------------- MODULE Spec2Model ----------------------------
(***************************************************************************)
(* Model of the Alegra documentation index: the SQLite store               *)
(* (alegraDatabase: pages, sections, operations, section vectors, FTS      *)
(* index), the keyword / hybrid retrieval functions and the                *)
(* alegra_get_endpoint_docs handler for a submodule page.                  *)
(*                                                                         *)
(* Every `await` of the source is a point where another request may run:   *)
(* an action is the synchronous code between two awaits.                   *)
(***************************************************************************)
EXTENDS Integers, Sequences, FiniteSets, TLC

VARIABLES
  db,     \* the SQLite database docs.db (all tables and the AUTOINCREMENT counters)
  now,    \* Date.now(), in milliseconds
  req,    \* per request: position in the handler, arguments and locals
  call,   \* inputs and result of a direct call of a library function
  cache,  \* the catalog cache file alegra_docs_index.json
  mem     \* module-level variables of the process outside the database

vars == <<db, now, req, call, cache, mem>>

----------------------------------------------------------------------------
(* Bounds of the model                                                     *)

NumReqs == 2          \* requests in flight at the same time
MaxSections == 5      \* sections of a scraped page (handler specification)
MaxOps == 3           \* operations in a scraped sidebar
MaxStores == 2        \* storePage calls in one behaviour (ids are AUTOINCREMENT)

(* Program constants                                                       *)

TTL_5_DAYS_MS == 432000000
DEFAULT_SECTION_LIMIT == 4
QUERY_SECTION_LIMIT == 3
CANDIDATE_K == 20
K_RRF == 60

----------------------------------------------------------------------------
(* Values                                                                  *)

Reqs == 1..NumReqs

Words == {"a", "b"}          \* \w+ runs of a text or query
Puncts == {"?"}              \* characters outside [\w\s]
SubSlug == "facturas"        \* slug of the catalog submodule requested
SubUrl == "u_facturas"
Slugs == {SubSlug}

Min(x, y) == IF x <= y THEN x ELSE y

Range(s) == {s[i] : i \in DOMAIN s}

\* s.slice(0, n) for n >= 0
Slice(s, n) == SubSeq(s, 1, Min(n, Len(s)))

\* The rows of the finite set S as the sequence ORDER BY position
RECURSIVE OrderByPosition(_)
OrderByPosition(S) ==
  IF S = {} THEN <<>>
  ELSE LET m == CHOOSE r \in S : \A o \in S : r.position <= o.position
       IN <<m>> \o OrderByPosition(S \ {m})

\* All orders (sequences without repetition) of the finite set S
Orderings(S) ==
  {f \in [1..Cardinality(S) -> S] : \A i, j \in 1..Cardinality(S) : f[i] = f[j] => i = j}

----------------------------------------------------------------------------
(* The database: schema and statements                                     *)

EmptyDb ==
  [pages |-> {}, sections |-> {}, operations |-> {}, vec |-> {}, fts |-> {},
   seqPage |-> 0, seqSection |-> 0, seqOp |-> 0]

HasPage(d, slug) == \E p \in d.pages : p.slug = slug

\* SELECT * FROM alegra_pages WHERE slug = ?   (used where HasPage holds)
PageOf(d, slug) == CHOOSE p \in d.pages : p.slug = slug

SectionsOfPage(d, pageId) == {s \in d.sections : s.page_id = pageId}

OperationsOfPage(d, pageId) == {o \in d.operations : o.page_id = pageId}

\* IsPageExpired with a page that is exactly TTL_5_DAYS_MS old taken as expired
IsPageExpiredAtTtl(d, slug, t) ==
  IF ~HasPage(d, slug) THEN TRUE
  ELSE t - PageOf(d, slug).fetched_at >= TTL_5_DAYS_MS

\* isPageExpired(slug) at time t
IsPageExpired(d, slug, t) ==
  IF ~HasPage(d, slug) THEN TRUE
  ELSE t - PageOf(d, slug).fetched_at > TTL_5_DAYS_MS

\* DeletePage with foreign_keys left off: the page row goes, its rows stay
DeletePageNoCascade(d, slug) ==
  [d EXCEPT !.pages = {p \in d.pages : p.slug # slug}]

\* DeletePage with the cascade missing on alegra_operations
DeletePageKeepsOperations(d, slug) ==
  LET gonePages == {p.id : p \in {q \in d.pages : q.slug = slug}}
      goneSecs == {s.id : s \in {x \in d.sections : x.page_id \in gonePages}}
  IN [d EXCEPT
        !.pages = {p \in d.pages : p.slug # slug},
        !.sections = {s \in d.sections : s.page_id \notin gonePages},
        !.vec = {v \in d.vec : v.section_id \notin goneSecs},
        !.fts = {f \in d.fts : f.rowid \notin goneSecs}]

\* DeletePage with trigger sections_ad missing: the FTS entries stay
DeletePageKeepsFts(d, slug) ==
  LET gonePages == {p.id : p \in {q \in d.pages : q.slug = slug}}
      goneSecs == {s.id : s \in {x \in d.sections : x.page_id \in gonePages}}
  IN [d EXCEPT
        !.pages = {p \in d.pages : p.slug # slug},
        !.sections = {s \in d.sections : s.page_id \notin gonePages},
        !.operations = {o \in d.operations : o.page_id \notin gonePages},
        !.vec = {v \in d.vec : v.section_id \notin goneSecs}]

\* DELETE FROM alegra_pages WHERE slug = ?  with foreign_keys = ON:
\* ON DELETE CASCADE removes the sections and operations of the page and the
\* vectors of those sections; trigger sections_ad removes their FTS entries.
DeletePage(d, slug) ==
  LET gonePages == {p.id : p \in {q \in d.pages : q.slug = slug}}
      goneSecs == {s.id : s \in {x \in d.sections : x.page_id \in gonePages}}
  IN [d EXCEPT
        !.pages = {p \in d.pages : p.slug # slug},
        !.sections = {s \in d.sections : s.page_id \notin gonePages},
        !.operations = {o \in d.operations : o.page_id \notin gonePages},
        !.vec = {v \in d.vec : v.section_id \notin goneSecs},
        !.fts = {f \in d.fts : f.rowid \notin goneSecs}]

\* rows changed by the DELETE of deletePage
DeleteChanges(d, slug) == Cardinality({p \in d.pages : p.slug = slug})

\* The INSERT of the page row violates slug UNIQUE when a row has the slug:
\* the statement throws and the transaction rolls back.
InsertPageThrows(d, slug) == HasPage(d, slug)

\* The transaction of storePage: INSERT the page row (fetched_at = Date.now()),
\* then one section row per section, position = index from 0; trigger
\* sections_ai indexes each section in the FTS table.
InsertPageTx(d, slug, url, secs, t) ==
  IF InsertPageThrows(d, slug) THEN d
  ELSE
    LET pageId == d.seqPage + 1
        newSecs == {[id |-> d.seqSection + i, page_id |-> pageId,
                     text |-> secs[i], position |-> i - 1] : i \in 1..Len(secs)}
    IN [d EXCEPT
          !.pages = @ \cup {[id |-> pageId, slug |-> slug, url |-> url, fetched_at |-> t]},
          !.sections = @ \cup newSecs,
          !.fts = @ \cup {[rowid |-> s.id, text |-> s.text] : s \in newSecs},
          !.seqPage = pageId,
          !.seqSection = @ + Len(secs)]

\* storeOperations(pageSlug, operations)
StoreOperationsReplace(d, slug, ops) ==
  LET page == PageOf(d, slug)
      newOps == {[id |-> d.seqOp + i, page_id |-> page.id, name |-> ops[i].name,
                  url |-> ops[i].url, slug |-> ops[i].slug,
                  position |-> i - 1] : i \in 1..Len(ops)}
  IN [d EXCEPT
        !.operations = {o \in @ : o.page_id # page.id} \cup newOps,
        !.seqOp = @ + Len(ops)]

\* StoreOperations without the early return on an empty list
StoreOperationsNoEmptyCheck(d, slug, ops) ==
  IF ~HasPage(d, slug) THEN d
  ELSE StoreOperationsReplace(d, slug, ops)

StoreOperations(d, slug, ops) ==
  IF Len(ops) = 0 THEN d
  ELSE IF ~HasPage(d, slug) THEN d
  ELSE StoreOperationsReplace(d, slug, ops)

\* getAllSections(slug)
GetAllSections(d, slug) ==
  IF ~HasPage(d, slug) THEN <<>>
  ELSE OrderByPosition(SectionsOfPage(d, PageOf(d, slug).id))

\* getOperations(pageSlug)
GetOperations(d, slug) ==
  IF ~HasPage(d, slug) THEN <<>>
  ELSE OrderByPosition(OperationsOfPage(d, PageOf(d, slug).id))

\* hasOperations(pageSlug)
HasOperations(d, slug) ==
  IF ~HasPage(d, slug) THEN FALSE
  ELSE Cardinality(OperationsOfPage(d, PageOf(d, slug).id)) > 0


----------------------------------------------------------------------------
(* Keyword search (FTS5)                                                   *)

IsWord(x) == x \in Words

\* query.replace(/[^\w\s]/g, " ").trim(): a query is a sequence of lexemes, each a
\* word or a punctuation character; punctuation becomes white space, so the safe
\* query is the sequence of the words, empty iff the query has no word.
SafeQuery(query) == SelectSeq(query, IsWord)

\* rows of the page that MATCH the safe query: FTS5 joins the words with an
\* implicit AND, each word found in the title or content indexed for the rowid
FtsMatching(d, pageId, words) ==
  {s \in SectionsOfPage(d, pageId) :
     \E f \in d.fts : f.rowid = s.id /\ \A w \in Range(words) : w \in Range(f.text)}

SectionById(d, id) == CHOOSE s \in d.sections : s.id = id

\* ORDER BY rank: bm25 is computed inside SQLite; rk is the order it gives the
\* section ids (any order of them), the matching rows come out in that order.
FtsRanked(d, pageId, words, rk) ==
  LET hit == {s.id : s \in FtsMatching(d, pageId, words)}
  IN SelectSeq(rk, LAMBDA id : id \in hit)

\* the rankings bm25 may give the rows of a page that match the query
Rankings(d, slug, query) ==
  IF ~HasPage(d, slug) THEN {<<>>}
  ELSE Orderings({s.id : s \in FtsMatching(d, PageOf(d, slug).id, SafeQuery(query))})

RowsOf(d, ids) == [i \in 1..Len(ids) |-> SectionById(d, ids[i])]

\* searchSections(slug, query, limit) with bm25 ranking rk
SearchSections(d, slug, query, limit, rk) ==
  IF ~HasPage(d, slug) THEN <<>>
  ELSE
    LET page == PageOf(d, slug)
        safeQuery == SafeQuery(query)
        rows == Slice(FtsRanked(d, page.id, safeQuery, rk), limit)
    IN IF safeQuery = <<>> THEN GetAllSections(d, slug)
       ELSE IF Len(rows) = 0
            THEN Slice(OrderByPosition(SectionsOfPage(d, page.id)), limit)
            ELSE RowsOf(d, rows)

----------------------------------------------------------------------------
(* Vectors and hybrid search                                               *)

\* embed(text): the embedding model is a black box from text to vector; the
\* vector of a text is kept as the (uninterpreted) value naming that text.
Embed(text) == <<"vec", text>>

\* the section ids of the page that have a stored vector
VecIds(d, pageId) ==
  {s.id : s \in {x \in SectionsOfPage(d, pageId) : \E v \in d.vec : v.section_id = x.id}}

\* SELECT COUNT(*) FROM alegra_sections_vec v JOIN alegra_sections s ... WHERE s.page_id = ?
VecCount(d, pageId) == Cardinality(VecIds(d, pageId))

\* the vector rows of the page sorted by cosine similarity to the query vector,
\* best first, cut to CANDIDATE_K: vk is the order the similarities give the ids
VecRanked(d, pageId, vk) ==
  LET has == VecIds(d, pageId)
  IN Slice(SelectSeq(vk, LAMBDA id : id \in has), CANDIDATE_K)

\* 1-based index of x in the sequence s (x occurs in s)
IndexOf(s, x) == CHOOSE i \in 1..Len(s) : s[i] = x

\* The fused score of id as the exact fraction <<numerator, denominator>>: each
\* list that holds id at 0-based rank r adds 1 / (k + r + 1).
RrfScore(ftsIds, vecIds, k, id) ==
  LET inF == id \in Range(ftsIds)
      inV == id \in Range(vecIds)
      x == k + IndexOf(ftsIds, id)
      y == k + IndexOf(vecIds, id)
  IN IF inF /\ inV THEN <<x + y, x * y>>
     ELSE IF inF THEN <<1, x>>
     ELSE IF inV THEN <<1, y>>
     ELSE <<0, 1>>

\* p > q for fractions with positive denominators
ScoreGt(p, q) == p[1] * q[2] > q[1] * p[2]

\* the keys of scoreMap in insertion order: the keyword ids, then the vector
\* ids the keyword list does not hold
MapKeys(ftsIds, vecIds) ==
  ftsIds \o SelectSeq(vecIds, LAMBDA id : id \notin Range(ftsIds))

RemoveAt(s, i) == SubSeq(s, 1, i - 1) \o SubSeq(s, i + 1, Len(s))

\* SortByScoreDesc with the comparator reversed (a[1] - b[1]): ascending, stable
RECURSIVE SortByScoreAsc(_, _, _, _)
SortByScoreAsc(ids, ftsIds, vecIds, k) ==
  IF ids = <<>> THEN <<>>
  ELSE
    LET sc(i) == RrfScore(ftsIds, vecIds, k, ids[i])
        least == CHOOSE i \in 1..Len(ids) :
                   /\ \A j \in 1..Len(ids) : ~ScoreGt(sc(i), sc(j))
                   /\ \A j \in 1..(i - 1) : ScoreGt(sc(j), sc(i))
    IN <<ids[least]>> \o SortByScoreAsc(RemoveAt(ids, least), ftsIds, vecIds, k)

\* [...entries].sort((a, b) => b[1] - a[1]): descending by score, stable
RECURSIVE SortByScoreDesc(_, _, _, _)
SortByScoreDesc(ids, ftsIds, vecIds, k) ==
  IF ids = <<>> THEN <<>>
  ELSE
    LET sc(i) == RrfScore(ftsIds, vecIds, k, ids[i])
        best == CHOOSE i \in 1..Len(ids) :
                  /\ \A j \in 1..Len(ids) : ~ScoreGt(sc(j), sc(i))
                  /\ \A j \in 1..(i - 1) : ScoreGt(sc(i), sc(j))
    IN <<ids[best]>> \o SortByScoreDesc(RemoveAt(ids, best), ftsIds, vecIds, k)

\* topIds: the ids of the `limit` highest fused scores
RrfTopIds(ftsIds, vecIds, k, limit) ==
  Slice(SortByScoreDesc(MapKeys(ftsIds, vecIds), ftsIds, vecIds, k), limit)

\* SelectByIds without ORDER BY position: the rows in the order of the ids
SelectByIdsInFusedOrder(d, ids) == RowsOf(d, ids)

\* SELECT * FROM alegra_sections WHERE id IN (topIds) ORDER BY position
SelectByIds(d, ids) == OrderByPosition({s \in d.sections : s.id \in Range(ids)})

\* the keyword candidates of hybridSearchSections
HybridFtsIds(d, pageId, query, rk) ==
  IF SafeQuery(query) = <<>> THEN <<>>
  ELSE Slice(FtsRanked(d, pageId, SafeQuery(query), rk), CANDIDATE_K)

\* HybridSearchSections without the keyword fallback for a page with no vector
HybridSearchNoFallback(d, slug, query, limit, rk, vk) ==
  IF ~HasPage(d, slug) THEN <<>>
  ELSE
    LET page == PageOf(d, slug)
        ftsIds == HybridFtsIds(d, page.id, query, rk)
        vecIds == VecRanked(d, page.id, vk)
        topIds == RrfTopIds(ftsIds, vecIds, K_RRF, limit)
    IN IF Len(topIds) = 0 THEN Slice(GetAllSections(d, slug), limit)
       ELSE SelectByIds(d, topIds)

\* hybridSearchSections(slug, query, limit): rk is the bm25 order, vk the
\* cosine order of the section ids.  No write runs between its awaits here.
HybridSearchSections(d, slug, query, limit, rk, vk) ==
  IF ~HasPage(d, slug) THEN <<>>
  ELSE
    LET page == PageOf(d, slug)
        ftsIds == HybridFtsIds(d, page.id, query, rk)
        vecIds == VecRanked(d, page.id, vk)
        topIds == RrfTopIds(ftsIds, vecIds, K_RRF, limit)
    IN IF VecCount(d, page.id) = 0 THEN SearchSections(d, slug, query, limit, rk)
       ELSE IF Len(topIds) = 0 THEN Slice(GetAllSections(d, slug), limit)
       ELSE SelectByIds(d, topIds)

\* embedPageSections(slug), with no write between its awaits: one vector per
\* section of the page, INSERT OR REPLACE by section_id
EmbedPageSections(d, slug) ==
  LET secs == Range(GetAllSections(d, slug))
      ids == {s.id : s \in secs}
  IN [d EXCEPT !.vec = {v \in @ : v.section_id \notin ids}
                       \cup {[section_id |-> s.id, embedding |-> Embed(s.text)] : s \in secs}]

\* storePage(slug, module, submodule, url, sections) run with no other request
\* between its awaits: deletePage, then the insert transaction
StorePage(d, slug, url, secs, t) == InsertPageTx(DeletePage(d, slug), slug, url, secs, t)

----------------------------------------------------------------------------
(* The handler alegra_get_endpoint_docs, no operation named                *)

NoQuery == <<>>                 \* query undefined or "" (falsy)
HandlerQueries == {NoQuery, <<"b">>, <<"?">>}

\* what a scrape of the submodule page can yield: splitIntoSections gives at
\* least one section for any page content; the sidebar gives 0..MaxOps links
SiteText(i) == IF i % 2 = 1 THEN <<"a">> ELSE <<"a", "b">>
SiteSections(n) == [i \in 1..n |-> SiteText(i)]
\* the operation links of the sidebar: {name, url, slug}, slug = last segment of
\* the url (deriveSlugFromUrl)
SiteOp(i) ==
  LET slug == IF i = 1 THEN <<"o", "a">> ELSE IF i = 2 THEN <<"o", "b">> ELSE <<"o", "a", "b">>
  IN [name |-> IF i = 1 THEN <<"A", "b">>
               ELSE IF i = 2 THEN <<"a", "b", " ", "a">> ELSE <<"b", "b">>,
      url |-> <<"u", slug>>, slug |-> slug]
SiteOps(m) == [i \in 1..m |-> SiteOp(i)]
SectionCounts == {1, MaxSections}
OpCounts == {0, MaxOps}

NoResp == [kind |-> "none", shown |-> <<>>, total |-> 0, refreshed |-> FALSE, opHint |-> FALSE]

IdleReq ==
  [pc |-> "idle", query |-> NoQuery, force |-> FALSE, needsFetch |-> FALSE,
   secs |-> <<>>, ops |-> <<>>, changes |-> 0, shown |-> <<>>, resp |-> NoResp]

\* createErrorResult(message): a result with isError
ErrorResp == [NoResp EXCEPT !.kind = "error"]

\* the promise of the handler is rejected: `return handleSubmodulePage(..)` is
\* not awaited inside the try block, so its catch does not see the rejection
ThrownResp == [NoResp EXCEPT !.kind = "thrown"]

Active == {r \in Reqs : req[r].pc # "idle"}

\* handleAlegraGetEndpointDocs is called with (query, forceRefresh) and has
\* resolved the submodule; handleSubmodulePage awaits isPageExpired
Start(r) ==
  /\ req[r].pc = "idle"
  /\ db.seqPage + Cardinality(Active) < MaxStores
  /\ \E q \in HandlerQueries, f \in BOOLEAN :
       req' = [req EXCEPT ![r] = [IdleReq EXCEPT !.pc = "expired", !.query = q, !.force = f]]
  /\ UNCHANGED <<db, now, call, cache, mem>>

\* const expired = await isPageExpired(slug); needsFetch = forceRefresh || expired
CheckExpired(r) ==
  /\ req[r].pc = "expired"
  /\ LET needs == req[r].force \/ IsPageExpired(db, SubSlug, now)
     IN req' = [req EXCEPT ![r].needsFetch = needs,
                           ![r].pc = IF needs THEN "fetch" ELSE "getops"]
  /\ UNCHANGED <<db, now, call, cache, mem>>

\* await fetchEndpointPage(url) resolves; splitIntoSections; storePage is called
Fetch(r) ==
  /\ req[r].pc = "fetch"
  /\ \E n \in SectionCounts, m \in OpCounts :
       req' = [req EXCEPT ![r].secs = SiteSections(n), ![r].ops = SiteOps(m),
                          ![r].pc = "sp_delete"]
  /\ UNCHANGED <<db, now, call, cache, mem>>

\* fetchHtml throws (network failure or non-2xx) inside handleSubmodulePage
FetchFails(r) ==
  /\ req[r].pc = "fetch"
  /\ req' = [req EXCEPT ![r].pc = "done", ![r].resp = ThrownResp]
  /\ UNCHANGED <<db, now, call, cache, mem>>

\* storePage: await deletePage(slug) -- the DELETE has run, storePage is suspended
StorePageDelete(r) ==
  /\ req[r].pc = "sp_delete"
  /\ db' = DeletePage(db, SubSlug)
  /\ req' = [req EXCEPT ![r].changes = DeleteChanges(db, SubSlug), ![r].pc = "sp_insert"]
  /\ UNCHANGED <<now, call, cache, mem>>

\* storePage: tx() -- insert the page row and its sections
StorePageInsert(r) ==
  /\ req[r].pc = "sp_insert"
  /\ db' = InsertPageTx(db, SubSlug, SubUrl, req[r].secs, now)
  /\ req' = IF InsertPageThrows(db, SubSlug)
            THEN [req EXCEPT ![r].pc = "done", ![r].resp = ThrownResp]
            ELSE [req EXCEPT ![r].pc = IF Len(req[r].ops) > 0 THEN "storeops" ELSE "getops"]
  /\ UNCHANGED <<now, call, cache, mem>>

\* if (operations.length > 0) await storeOperations(slug, operations)
StoreOps(r) ==
  /\ req[r].pc = "storeops"
  /\ db' = StoreOperations(db, SubSlug, req[r].ops)
  /\ req' = [req EXCEPT ![r].pc = "getops"]
  /\ UNCHANGED <<now, call, cache, mem>>

OpListResp(ops, refreshed) ==
  [NoResp EXCEPT !.kind = "oplist", !.shown = ops, !.total = Len(ops), !.refreshed = refreshed]

\* GetOps answering with the operation list only after a fetch of this request
GetOpsOnlyWhenRefreshed(r) ==
  /\ req[r].pc = "getops"
  /\ LET ops == GetOperations(db, SubSlug)
     IN req' = IF Len(ops) > 0 /\ req[r].query = NoQuery /\ req[r].needsFetch
               THEN [req EXCEPT ![r].pc = "done",
                                ![r].resp = OpListResp(ops, req[r].needsFetch)]
               ELSE [req EXCEPT ![r].pc = "rs"]
  /\ UNCHANGED <<db, now, call, cache, mem>>

\* const ops = await getOperations(slug): a container page asked without query
\* is answered with the operation list, else returnSections is entered
GetOps(r) ==
  /\ req[r].pc = "getops"
  /\ LET ops == GetOperations(db, SubSlug)
     IN req' = IF Len(ops) > 0 /\ req[r].query = NoQuery
               THEN [req EXCEPT ![r].pc = "done",
                                ![r].resp = OpListResp(ops, req[r].needsFetch)]
               ELSE [req EXCEPT ![r].pc = "rs"]
  /\ UNCHANGED <<db, now, call, cache, mem>>

\* the step of returnSections after its sections are read: no section is an error
AfterRead(r, sections, nextPc) ==
  IF Len(sections) = 0
  THEN [req EXCEPT ![r].pc = "done", ![r].resp = ErrorResp]
  ELSE [req EXCEPT ![r].pc = nextPc, ![r].shown = sections]

\* returnSections: query ? await searchSections(slug, query, QUERY_SECTION_LIMIT)
\*                       : (await getAllSections(slug)).slice(0, DEFAULT_SECTION_LIMIT)
\* searchSections with an empty safe query awaits getAllSections (next action).
ReturnSectionsRead(r) ==
  /\ req[r].pc = "rs"
  /\ IF req[r].query = NoQuery
     THEN req' = AfterRead(r, Slice(GetAllSections(db, SubSlug), DEFAULT_SECTION_LIMIT), "hdr")
     ELSE IF HasPage(db, SubSlug) /\ SafeQuery(req[r].query) = <<>>
     THEN req' = [req EXCEPT ![r].pc = "rs_all"]
     ELSE \E rk \in Rankings(db, SubSlug, req[r].query) :
            req' = AfterRead(r, SearchSections(db, SubSlug, req[r].query,
                                               QUERY_SECTION_LIMIT, rk), "hdr")
  /\ UNCHANGED <<db, now, call, cache, mem>>

\* searchSections: return getAllSections(slug)
ReturnSectionsAll(r) ==
  /\ req[r].pc = "rs_all"
  /\ req' = AfterRead(r, GetAllSections(db, SubSlug), "hdr")
  /\ UNCHANGED <<db, now, call, cache, mem>>

\* returnSections: getPageMeta, getAllSections (total) and hasOperations are
\* read for the header and the success result is returned
Header(r) ==
  /\ req[r].pc = "hdr"
  /\ req' = [req EXCEPT ![r].pc = "done",
                        ![r].resp = [kind |-> "sections", shown |-> req[r].shown,
                                     total |-> Len(GetAllSections(db, SubSlug)),
                                     refreshed |-> req[r].needsFetch,
                                     opHint |-> HasOperations(db, SubSlug)]]
  /\ UNCHANGED <<db, now, call, cache, mem>>

\* the result is delivered to the caller
Return(r) ==
  /\ req[r].pc = "done"
  /\ req' = [req EXCEPT ![r] = IdleReq]
  /\ UNCHANGED <<db, now, call, cache, mem>>

\* the instants at which the clock is read: a page fetched at 0 is then aged
\* 0, exactly the TTL, or one millisecond more
ClockValues == {0, TTL_5_DAYS_MS, TTL_5_DAYS_MS + 1}

\* time passes
Tick ==
  /\ \E t \in ClockValues : t > now /\ now' = t
  /\ UNCHANGED <<db, req, call, cache, mem>>

NoCall == [fn |-> "none"]

\* the cache directory holds no catalog file
NoFile == [exists |-> FALSE, mtime |-> 0, modules |-> <<>>]

\* nothing of the other modules has run
NoMem == [none |-> TRUE]

Init ==
  /\ db = EmptyDb
  /\ now = 0
  /\ req = [r \in Reqs |-> IdleReq]
  /\ call = NoCall
  /\ cache = NoFile
  /\ mem = NoMem

Step(r) ==
  \/ CheckExpired(r)
  \/ Fetch(r)
  \/ FetchFails(r)
  \/ StorePageDelete(r)
  \/ StorePageInsert(r)
  \/ StoreOps(r)
  \/ GetOps(r)
  \/ ReturnSectionsRead(r)
  \/ ReturnSectionsAll(r)
  \/ Header(r)
  \/ Return(r)

Next ==
  \/ \E r \in Reqs : Start(r)
  \/ \E r \in Reqs : Step(r)
  \/ Tick

\* requests run concurrently, interleaved at their awaits
Spec == Init /\ [][Next]_vars

\* one request at a time: a request starts when no other is in flight
StartAlone(r) == Active = {} /\ Start(r)

NextSeq ==
  \/ \E r \in Reqs : StartAlone(r)
  \/ \E r \in Reqs : Step(r)
  \/ Tick

SpecSeq == Init /\ [][NextSeq]_vars

----------------------------------------------------------------------------
(* Direct calls of the store functions, one after the other                *)

MaxLibStores == 2      \* storePage calls in one behaviour of SpecStore
MaxOpIds == 4          \* operation rows ever inserted in one behaviour of SpecStore
MaxPageSections == 3   \* sections of a page stored by a direct call
MaxLibOps == 2         \* operations stored by a direct call
MaxLimit == 3          \* the limit argument of a search

OtherSlug == "pagos"
LibSlugs == {SubSlug, OtherSlug}
UrlOf(slug) == IF slug = SubSlug THEN SubUrl ELSE "u_pagos"

LibTexts == {<<"a">>, <<"a", "b">>}

SeqsUpTo(S, n) == UNION {[1..k -> S] : k \in 0..n}

LibDocs == SeqsUpTo(LibTexts, MaxPageSections)
LibOpLists == {SiteOps(m) : m \in 0..MaxLibOps}
StoreDocs == {SiteSections(n) : n \in 0..MaxPageSections}

\* storePage(slug, ..) followed by storeOperations(slug, ops): one re-indexing
LibReindex ==
  /\ db.seqPage < MaxLibStores
  /\ \E slug \in LibSlugs, secs \in StoreDocs, ops \in LibOpLists :
       /\ db.seqOp + Len(ops) <= MaxOpIds
       /\ db' = StoreOperations(StorePage(db, slug, UrlOf(slug), secs, now), slug, ops)
       /\ call' = [fn |-> "reindex", slug |-> slug, secs |-> secs, ops |-> ops]
  /\ UNCHANGED <<now, req, cache, mem>>

\* storeOperations(slug, ops) on its own
LibStoreOperations ==
  /\ \E slug \in LibSlugs, ops \in LibOpLists :
       /\ db.seqOp + Len(ops) <= MaxOpIds
       /\ db' = StoreOperations(db, slug, ops)
       /\ call' = [fn |-> "storeOperations", slug |-> slug, ops |-> ops, before |-> db]
  /\ UNCHANGED <<now, req, cache, mem>>

\* embedPageSections(slug)
LibEmbed ==
  /\ \E slug \in LibSlugs :
       /\ db' = EmbedPageSections(db, slug)
       /\ call' = [fn |-> "embedPageSections", slug |-> slug]
  /\ UNCHANGED <<now, req, cache, mem>>

NextStore == LibReindex \/ LibStoreOperations \/ LibEmbed

SpecStore == Init /\ [][NextStore]_vars

----------------------------------------------------------------------------
(* Direct calls of the search functions on a stored page                   *)

OtherDoc == <<<<"a", "b">>, <<"a">>>>

\* a store holding the other page (embedded) and the page searched, the
\* latter with or without its vectors
SearchDb(secs, embedded) ==
  LET d1 == EmbedPageSections(StorePage(EmptyDb, OtherSlug, UrlOf(OtherSlug), OtherDoc, 0),
                              OtherSlug)
      d2 == StorePage(d1, SubSlug, SubUrl, secs, 0)
  IN IF embedded THEN EmbedPageSections(d2, SubSlug) ELSE d2

LibQueries == {<<>>, <<"?">>, <<"a">>, <<"b">>, <<"a", "?", "b">>, <<"c">>}
Limits == 1..MaxLimit

\* the orders cosine similarity may give the embedded sections of a page
VecRankings(d, slug) ==
  IF ~HasPage(d, slug) THEN {<<>>} ELSE Orderings(VecIds(d, PageOf(d, slug).id))

InitSearch ==
  /\ db \in {SearchDb(secs, e) : secs \in LibDocs, e \in BOOLEAN}
  /\ now = 0
  /\ req = [r \in Reqs |-> IdleReq]
  /\ call = NoCall
  /\ cache = NoFile
  /\ mem = NoMem

\* searchSections(slug, query, limit)
LibSearch ==
  /\ call = NoCall
  /\ \E slug \in LibSlugs, q \in LibQueries, limit \in Limits :
       \E rk \in Rankings(db, slug, q) :
         call' = [fn |-> "searchSections", slug |-> slug, query |-> q, limit |-> limit,
                  out |-> SearchSections(db, slug, q, limit, rk)]
  /\ UNCHANGED <<db, now, req, cache, mem>>

\* hybridSearchSections(slug, query, limit); kw is what searchSections gives
\* for the same arguments on the same store
LibHybrid ==
  /\ call = NoCall
  /\ \E slug \in LibSlugs, q \in LibQueries, limit \in Limits :
       \E rk \in Rankings(db, slug, q), vk \in VecRankings(db, slug) :
         call' = [fn |-> "hybridSearchSections", slug |-> slug, query |-> q,
                  limit |-> limit,
                  ftsIds |-> HybridFtsIds(db, PageOf(db, slug).id, q, rk),
                  vecIds |-> VecRanked(db, PageOf(db, slug).id, vk),
                  out |-> HybridSearchSections(db, slug, q, limit, rk, vk),
                  kw |-> SearchSections(db, slug, q, limit, rk)]
  /\ UNCHANGED <<db, now, req, cache, mem>>

NextSearch == LibSearch \/ LibHybrid

SpecSearch == InitSearch /\ [][NextSearch]_vars

----------------------------------------------------------------------------
(* Reciprocal Rank Fusion on arbitrary candidate lists                     *)

MaxIds == 3            \* section ids in the candidate lists
MaxK == 2              \* the RRF constant ranges over 1..MaxK and K_RRF

RrfIds == 1..MaxIds
RrfLists == {s \in SeqsUpTo(RrfIds, MaxIds) : \A i, j \in 1..Len(s) : s[i] = s[j] => i = j}
RrfConstants == (1..MaxK) \cup {K_RRF}

InitRrf ==
  /\ db = EmptyDb
  /\ now = 0
  /\ req = [r \in Reqs |-> IdleReq]
  /\ call \in {[fn |-> "rrfInput", ftsIds |-> f, vecIds |-> v, k |-> k, limit |-> l, top |-> <<>>] :
                 f \in RrfLists, v \in RrfLists, k \in RrfConstants, l \in Limits}
  /\ cache = NoFile
  /\ mem = NoMem

\* the fusion step of hybridSearchSections with constant k
Fuse ==
  /\ call.fn = "rrfInput"
  /\ call' = [call EXCEPT !.fn = "rrf",
                          !.top = RrfTopIds(call.ftsIds, call.vecIds, call.k, call.limit)]
  /\ UNCHANGED <<db, now, req, cache, mem>>

NextRrf == Fuse

SpecRrf == InitRrf /\ [][NextRrf]_vars

----------------------------------------------------------------------------
(* Names and target resolution                                             *)

\* A string is the sequence of its characters; "A" is the upper case of "a".
ToLowerCase(s) == [i \in 1..Len(s) |-> IF s[i] = "A" THEN "a" ELSE s[i]]

\* s.trim()
RECURSIVE Trim(_)
Trim(s) ==
  IF s = <<>> THEN s
  ELSE IF Head(s) = " " THEN Trim(Tail(s))
  ELSE IF s[Len(s)] = " " THEN Trim(SubSeq(s, 1, Len(s) - 1))
  ELSE s

\* s.replace(/\s+/g, "-"): every run of white space becomes one dash
RECURSIVE ReplaceSpaces(_)
ReplaceSpaces(s) ==
  IF s = <<>> THEN s
  ELSE IF Head(s) # " " THEN <<Head(s)>> \o ReplaceSpaces(Tail(s))
  ELSE IF Len(s) > 1 /\ s[2] = " " THEN ReplaceSpaces(Tail(s))
  ELSE <<"-">> \o ReplaceSpaces(Tail(s))

\* s.includes(q)
Includes(s, q) == \E i \in 1..(Len(s) - Len(q) + 1) : SubSeq(s, i, i + Len(q) - 1) = q

\* list.find(..) on the answers of the predicate for the entries of the list:
\* index of the first entry that matches, 0 when none does (undefined)
FindIndex(hits) ==
  IF \E i \in 1..Len(hits) : hits[i]
  THEN CHOOSE i \in 1..Len(hits) : hits[i] /\ \A j \in 1..(i - 1) : ~hits[j]
  ELSE 0

\* a ?? b on the indices
Or(a, b) == IF a # 0 THEN a ELSE b

\* FindModule taking the first module of the catalog that matches by any rule
FindModuleInCatalogOrder(modules, query) ==
  LET q == ToLowerCase(Trim(query))
      any(m) == \/ ToLowerCase(m.name) = q
                \/ m.slug = ReplaceSpaces(q)
                \/ Includes(ToLowerCase(m.name), q)
      find(P(_)) == FindIndex([i \in 1..Len(modules) |-> P(modules[i])])
  IN find(any)

\* findModule(modules, query): index of the module found, 0 for undefined
FindModule(modules, query) ==
  LET q == ToLowerCase(Trim(query))
      exact(m) == ToLowerCase(m.name) = q
      bySlug(m) == m.slug = ReplaceSpaces(q)
      partial(m) == Includes(ToLowerCase(m.name), q)
      find(P(_)) == FindIndex([i \in 1..Len(modules) |-> P(modules[i])])
  IN Or(find(exact), Or(find(bySlug), find(partial)))

\* findSubmodule(submodules, query)
FindSubmodule(submodules, query) ==
  LET q == ToLowerCase(Trim(query))
      exact(x) == ToLowerCase(x.name) = q
      bySlug(x) == x.slug = ReplaceSpaces(q)
      partial(x) == Includes(ToLowerCase(x.name), q)
      slugPartial(x) == Includes(x.slug, ReplaceSpaces(q))
      find(P(_)) == FindIndex([i \in 1..Len(submodules) |-> P(submodules[i])])
  IN Or(find(exact),
        Or(find(bySlug),
           Or(find(partial), find(slugPartial))))

NameList(list) == [i \in 1..Len(list) |-> list[i].name]

\* resolveTarget(modules, moduleName, submoduleName)
ResolveTarget(modules, moduleName, submoduleName) ==
  LET m == FindModule(modules, moduleName)
      x == IF m = 0 THEN 0 ELSE FindSubmodule(modules[m].submodules, submoduleName)
  IN IF m = 0 THEN [found |-> FALSE, level |-> "module", available |-> NameList(modules)]
     ELSE IF x = 0
     THEN [found |-> FALSE, level |-> "submodule",
           available |-> NameList(modules[m].submodules)]
     ELSE [found |-> TRUE, mod |-> modules[m], submodule |-> modules[m].submodules[x]]

\* FindOperation taking the first operation that matches by any rule
FindOperationInPositionOrder(d, pageSlug, query) ==
  LET ops == GetOperations(d, pageSlug)
      q == ToLowerCase(Trim(query))
      any(o) == \/ ToLowerCase(o.name) = q
                \/ o.slug = ReplaceSpaces(q)
                \/ Includes(ToLowerCase(o.name), q)
                \/ Includes(o.slug, ReplaceSpaces(q))
      find(P(_)) == FindIndex([i \in 1..Len(ops) |-> P(ops[i])])
  IN find(any)

\* findOperation(pageSlug, query) on the stored operation rows: the row found,
\* or the index 0 for null
FindOperation(d, pageSlug, query) ==
  LET ops == GetOperations(d, pageSlug)
      q == ToLowerCase(Trim(query))
      exact(o) == ToLowerCase(o.name) = q
      bySlug(o) == o.slug = ReplaceSpaces(q)
      partial(o) == Includes(ToLowerCase(o.name), q)
      slugPartial(o) == Includes(o.slug, ReplaceSpaces(q))
      find(P(_)) == FindIndex([i \in 1..Len(ops) |-> P(ops[i])])
  IN Or(find(exact),
        Or(find(bySlug),
           Or(find(partial), find(slugPartial))))

----------------------------------------------------------------------------
(* Content extraction and chunking                                         *)

MIN_SECTION_CHARS == 80
MAX_SECTION_CHARS == 2500

\* A markdown text is the sequence of its blocks, separated by blank lines:
\* a heading [h |-> level, len, words] or a paragraph [h |-> 0, len, words], len
\* its number of characters.  A page title or heading text is a sequence of words.
Heading(level, len, words) == [h |-> level, len |-> len, words |-> words]
Para(len, words) == [h |-> 0, len |-> len, words |-> words]

\* length of the blocks joined by "\n\n"
RECURSIVE ContentLen(_)
ContentLen(paras) ==
  IF paras = <<>> THEN 0
  ELSE IF Len(paras) = 1 THEN paras[1].len
  ELSE paras[1].len + 2 + ContentLen(Tail(paras))

RECURSIVE ContentWords(_)
ContentWords(paras) ==
  IF paras = <<>> THEN <<>> ELSE paras[1].words \o ContentWords(Tail(paras))

\* what the FTS index sees of a section: the words of its title and content
SectionText(sec) == sec.title \o ContentWords(sec.paras)
SectionTexts(secs) == [i \in 1..Len(secs) |-> SectionText(secs[i])]

\* the chunk pushed by splitLongSection: parts after the first get "(parte n)"
Chunk(title, partIndex, buffer) == [title |-> title, part |-> partIndex, paras |-> buffer]

\* the loop of splitLongSection over the paragraphs
RECURSIVE SplitParagraphs(_, _, _, _)
SplitParagraphs(paras, buffer, partIndex, title) ==
  IF paras = <<>>
  THEN IF Len(buffer) > 0 THEN <<Chunk(title, partIndex, buffer)>> ELSE <<>>
  ELSE IF ContentLen(Append(buffer, Head(paras))) > MAX_SECTION_CHARS /\ Len(buffer) > 0
  THEN <<Chunk(title, partIndex, buffer)>>
         \o SplitParagraphs(Tail(paras), <<Head(paras)>>, partIndex + 1, title)
  ELSE SplitParagraphs(Tail(paras), Append(buffer, Head(paras)), partIndex, title)

\* splitLongSection(section)
SplitLongSection(sec) ==
  IF ContentLen(sec.paras) <= MAX_SECTION_CHARS THEN <<sec>>
  ELSE SplitParagraphs(sec.paras, <<>>, 1, sec.title)

\* the buffered content is pushed as a section when long enough, else merged
\* into the previous section, else (no previous section) dropped
Flush(raw, title, buffered) ==
  IF ContentLen(buffered) >= MIN_SECTION_CHARS
  THEN Append(raw, Chunk(title, 1, buffered))
  ELSE IF Len(raw) > 0 /\ ContentLen(buffered) > 0
  THEN [raw EXCEPT ![Len(raw)].paras = @ \o buffered]
  ELSE raw

\* the loop of splitIntoSections over the lines, then the flush of the last buffer
RECURSIVE SplitLoop(_, _, _, _)
SplitLoop(blocks, raw, currentTitle, currentLines) ==
  IF blocks = <<>> THEN Flush(raw, currentTitle, currentLines)
  ELSE IF Head(blocks).h \in {2, 3}
  THEN SplitLoop(Tail(blocks), Flush(raw, currentTitle, currentLines), Head(blocks).words, <<>>)
  ELSE SplitLoop(Tail(blocks), raw, currentTitle, Append(currentLines, Head(blocks)))

RECURSIVE FlatMapSplit(_)
FlatMapSplit(raw) ==
  IF raw = <<>> THEN <<>> ELSE SplitLongSection(Head(raw)) \o FlatMapSplit(Tail(raw))

\* splitIntoSections(markdown, pageTitle)
SplitIntoSections(markdown, pageTitle) ==
  LET rawSections == SplitLoop(markdown, <<>>, pageTitle, <<>>)
  IN IF Len(rawSections) = 0 /\ Len(markdown) > 0
     THEN SplitLongSection(Chunk(pageTitle, 1, markdown))
     ELSE FlatMapSplit(rawSections)

\* characters of the url `${ALEGRA_BASE_URL}/reference/${slug}` of a page
UrlLen(pageUrl) == 39 + Len(pageUrl[2])

\* A fetched page: `next` is the markdown extractContentFromNextData builds from
\* the embedded JSON (<<>> for null: no JSON, or a result of 150 characters or
\* less), `body` the non-empty text lines of the HTML, `ops` the sidebar links.
ExtractContentFromNextData(html, pageUrl) == html.next

\* `# Documentación: ${pageUrl}`, a blank line, then the text lines joined by "\n"
ExtractContentFromHtml(html, pageUrl) ==
  <<Heading(1, 17 + UrlLen(pageUrl), <<"Documentacion">>)>> \o
    (IF html.body = <<>> THEN <<>>
     ELSE <<Para(ContentLen(html.body) - (Len(html.body) - 1), ContentWords(html.body))>>)

\* extractEndpointContent(html, pageUrl)
ExtractEndpointContent(html, pageUrl) ==
  IF ExtractContentFromNextData(html, pageUrl) # <<>>
  THEN ExtractContentFromNextData(html, pageUrl)
  ELSE ExtractContentFromHtml(html, pageUrl)

----------------------------------------------------------------------------
(* The handler alegra_get_endpoint_docs: catalog, submodule and operation  *)

MaxDocStores == 2      \* pages fetched and stored in one behaviour of SpecDocs

UrlOfSlug(slug) == <<"u", slug>>

\* ALEGRA_BASE_URL, the page fetchIndex reads
IndexUrl == UrlOfSlug(<<>>)

\* no catalog entry / operation resolved yet
NoEntry == [name |-> <<>>, url |-> <<>>, slug |-> <<>>]

\* what the site serves.  Catalog entries {name, url, slug}:
SubEntry(name, slug) == [name |-> name, url |-> UrlOfSlug(slug), slug |-> slug]
SubX == SubEntry(<<"A", "b">>, <<"a", "b">>)
SubY == SubEntry(<<"a", "b", " ", "a">>, <<"b">>)
SubZ == SubEntry(<<"a", " ", "b">>, <<"a", "-", "b">>)
ModX(subs) == [name |-> <<"A", "b">>, slug |-> <<"a", "b">>, submodules |-> subs]
ModY == [name |-> <<"a", "b", " ", "a">>, slug |-> <<"b">>, submodules |-> <<SubZ>>]

\* the catalog fetchIndex returns: for the names typed below, an entry that
\* matches by a later rule stands before the entry that matches by an earlier one
Catalogs == {<<ModX(<<SubX, SubY>>), ModY>>}

\* the pages a documentation url may serve: embedded JSON with two sections
\* of content, or no usable JSON and no text in the HTML
FullPage ==
  [next |-> <<Heading(1, 10, <<"a">>), Para(100, <<"a">>),
              Heading(2, 10, <<"b">>), Para(100, <<"a", "b">>)>>,
   body |-> <<>>]
EmptyPage == [next |-> <<>>, body |-> <<>>]
SitePages == {FullPage, EmptyPage}

\* number of operation links in the sidebar of a submodule page
DocOpCounts == {0, 2}

\* the arguments of a call: names as typed by the caller
NoOperation == <<>>             \* operation undefined or "" (falsy)
\* <<module, submodule>>: exact names; submodule by slug; module by slug and
\* submodule by part of its slug; unknown submodule; unknown module; blank module
NameArgs ==
  {<<<<"A", "b">>, <<"A", "b">>>>, <<<<"A", "b">>, <<"b">>>>, <<<<"b">>, <<"-", "b">>>>,
   <<<<"A", "b">>, <<"-", "b">>>>, <<<<"b", "b">>, <<"A", "b">>>>, <<<<" ">>, <<"A", "b">>>>}
OperationArgs == {NoOperation, <<"a", "b">>, <<"b", "b", "b">>}
DocQueries == {NoQuery, <<"b">>}

DocResp ==
  [kind |-> "none", shown |-> <<>>, total |-> 0, refreshed |-> FALSE, opHint |-> FALSE,
   available |-> <<>>, level |-> "none"]

IdleDoc ==
  [pc |-> "idle", module |-> <<>>, submodule |-> <<>>, operation |-> NoOperation,
   query |-> NoQuery, force |-> FALSE,
   before |-> EmptyDb, cache0 |-> NoFile,   \* the stores when the call was made
   sub |-> NoEntry, op |-> NoEntry,    \* the submodule and operation resolved
   stage |-> "none",                   \* the page being ensured fresh: "sub" or "op"
   needsFetch |-> FALSE, html |-> EmptyPage, secs |-> <<>>, ops |-> <<>>,
   fetched |-> <<>>,                   \* the urls fetched by this call, in order
   failed |-> FALSE,                   \* the last fetch failed
   shown |-> <<>>, resp |-> DocResp]

\* the promise of the handler settles: result returned or promise rejected
Settle(r, resp) == [req EXCEPT ![r].pc = "done", ![r].resp = resp]

ErrorResult(level, available) ==
  [DocResp EXCEPT !.kind = "error", !.level = level, !.available = available]
Rejected == [DocResp EXCEPT !.kind = "thrown"]

\* z.string().trim().min(1) on module and submodule
ValidArguments(module, submodule) == Len(Trim(module)) >= 1 /\ Len(Trim(submodule)) >= 1

\* handleAlegraGetEndpointDocs(rawArguments): invalid arguments are answered
\* at once, else resolveAlegraIndex(false) is awaited
Call(r) ==
  /\ req[r].pc = "idle"
  /\ \E n \in NameArgs, o \in OperationArgs, q \in DocQueries, f \in BOOLEAN :
       LET m == n[1]
           s == n[2]
           c == [IdleDoc EXCEPT !.module = Trim(m), !.submodule = Trim(s),
                                !.operation = Trim(o), !.query = q, !.force = f,
                                !.before = db, !.cache0 = cache]
       IN req' = [req EXCEPT ![r] =
                    IF ValidArguments(m, s) THEN [c EXCEPT !.pc = "index"]
                    ELSE [c EXCEPT !.pc = "done", !.resp = ErrorResult("arguments", <<>>)]]
  /\ UNCHANGED <<db, now, call, cache, mem>>

\* isExpiredByPath: no file, or Date.now() - mtimeMs > TTL_5_DAYS_MS
IndexIsExpired(c, t) == ~c.exists \/ t - c.mtime > TTL_5_DAYS_MS

\* after the index is resolved: resolveTarget, then handleOperationPage when an
\* operation is named, else handleSubmodulePage; both start by ensuring the
\* submodule page fresh
AfterIndex(r, modules) ==
  LET res == ResolveTarget(modules, req[r].module, req[r].submodule)
  IN IF ~res.found THEN Settle(r, ErrorResult(res.level, res.available))
     ELSE [req EXCEPT ![r].sub = res.submodule, ![r].stage = "sub", ![r].pc = "expired"]

\* resolveAlegraIndex(false): the cached catalog when the file is within its TTL
ResolveIndexCached(r) ==
  /\ req[r].pc = "index"
  /\ ~IndexIsExpired(cache, now)
  /\ req' = AfterIndex(r, cache.modules)
  /\ UNCHANGED <<db, now, call, cache, mem>>

\* resolveAlegraIndex(false): fetchIndex() resolves and the cache file is written
FetchIndex(r) ==
  /\ req[r].pc = "index"
  /\ IndexIsExpired(cache, now)
  /\ \E modules \in Catalogs :
       /\ cache' = [exists |-> TRUE, mtime |-> now, modules |-> modules]
       /\ req' = [AfterIndex(r, modules) EXCEPT ![r].fetched = Append(@, IndexUrl)]
  /\ UNCHANGED <<db, now, call, mem>>

\* fetchIndex() throws: awaited inside the try block, the catch answers
FetchIndexFails(r) ==
  /\ req[r].pc = "index"
  /\ IndexIsExpired(cache, now)
  /\ req' = [Settle(r, ErrorResult("catch", <<>>)) EXCEPT
               ![r].fetched = Append(@, IndexUrl), ![r].failed = TRUE]
  /\ UNCHANGED <<db, now, call, cache, mem>>


\* TargetSlug with the operation page kept under the slug of its submodule
TargetSlugOfSubmodule(c) == c.sub.slug

\* the slug and url of the page the call is ensuring fresh or reading
TargetSlug(c) == IF c.stage = "op" THEN c.op.slug ELSE c.sub.slug
TargetUrl(c) == IF c.stage = "op" THEN c.op.url ELSE c.sub.url

\* the title given to splitIntoSections, as the words the index sees
PageTitle(c) == <<"t">>

\* where the call goes once the page of its stage is fresh
AfterFresh(c) ==
  IF c.stage = "op" THEN "rs"
  ELSE IF c.operation # NoOperation THEN "find" ELSE "getops"

\* forceRefresh || await isPageExpired(slug)
Expired(r) ==
  /\ req[r].pc = "expired"
  /\ LET needs == req[r].force \/ IsPageExpired(db, TargetSlug(req[r]), now)
     IN req' = [req EXCEPT ![r].needsFetch = needs,
                           ![r].pc = IF needs THEN "fetch" ELSE AfterFresh(req[r])]
  /\ UNCHANGED <<db, now, call, cache, mem>>

\* fetchEndpointPage(url) / fetchOperationPage(url) resolves: the content is
\* extracted, the sidebar links collected (submodule page only), the content
\* split into sections
PageFetch(r) ==
  /\ req[r].pc = "fetch"
  /\ db.seqPage < MaxDocStores
  /\ \E html \in SitePages, m \in DocOpCounts :
       /\ req[r].stage = "op" => m = 0
       /\ req' = [req EXCEPT
            ![r].html = html,
            ![r].secs = SectionTexts(SplitIntoSections(
                          ExtractEndpointContent(html, TargetUrl(req[r])), PageTitle(req[r]))),
            ![r].ops = SiteOps(m),
            ![r].fetched = Append(@, TargetUrl(req[r])),
            ![r].pc = "store"]
  /\ UNCHANGED <<db, now, call, cache, mem>>

\* PageFetchFails trying the same url again instead of giving up
PageFetchRetries(r) ==
  /\ req[r].pc = "fetch"
  /\ Len(req[r].fetched) < 4
  /\ req' = [req EXCEPT ![r].fetched = Append(@, TargetUrl(req[r]))]
  /\ UNCHANGED <<db, now, call, cache, mem>>

\* fetchHtml throws (network failure or non-2xx) inside handleSubmodulePage or
\* handleOperationPage, whose promise the handler returns without awaiting it
PageFetchFails(r) ==
  /\ req[r].pc = "fetch"
  /\ req' = [Settle(r, Rejected) EXCEPT
               ![r].fetched = Append(@, TargetUrl(req[r])), ![r].failed = TRUE]
  /\ UNCHANGED <<db, now, call, cache, mem>>

\* await storePage(slug, .., url, sections)
PageStore(r) ==
  /\ req[r].pc = "store"
  /\ db' = StorePage(db, TargetSlug(req[r]), TargetUrl(req[r]), req[r].secs, now)
  /\ req' = [req EXCEPT ![r].pc = IF req[r].stage = "sub" /\ Len(req[r].ops) > 0
                                   THEN "storeops" ELSE AfterFresh(req[r])]
  /\ UNCHANGED <<now, call, cache, mem>>

\* if (operations.length > 0) await storeOperations(slug, operations)
PageStoreOps(r) ==
  /\ req[r].pc = "storeops"
  /\ db' = StoreOperations(db, req[r].sub.slug, req[r].ops)
  /\ req' = [req EXCEPT ![r].pc = AfterFresh(req[r])]
  /\ UNCHANGED <<now, call, cache, mem>>

\* handleOperationPage: const op = await findOperation(subSlug, operationName)
FindOp(r) ==
  /\ req[r].pc = "find"
  /\ LET i == FindOperation(db, req[r].sub.slug, req[r].operation)
     IN req' = IF i = 0 THEN [req EXCEPT ![r].pc = "avail"]
               ELSE [req EXCEPT ![r].op = GetOperations(db, req[r].sub.slug)[i],
                                ![r].stage = "op", ![r].pc = "expired"]
  /\ UNCHANGED <<db, now, call, cache, mem>>

\* Available answering without reading the stored operations
AvailableWithoutNames(r) ==
  /\ req[r].pc = "avail"
  /\ req' = Settle(r, ErrorResult("operation", <<>>))
  /\ UNCHANGED <<db, now, call, cache, mem>>

\* handleOperationPage, operation not found: the error lists the names of
\* await getOperations(subSlug)
Available(r) ==
  /\ req[r].pc = "avail"
  /\ req' = Settle(r, ErrorResult("operation", NameList(GetOperations(db, req[r].sub.slug))))
  /\ UNCHANGED <<db, now, call, cache, mem>>

DocOpList(ops, refreshed) ==
  [DocResp EXCEPT !.kind = "oplist", !.shown = ops, !.total = Len(ops),
                  !.refreshed = refreshed]

\* handleSubmodulePage: const ops = await getOperations(slug)
DocGetOps(r) ==
  /\ req[r].pc = "getops"
  /\ LET ops == GetOperations(db, req[r].sub.slug)
     IN req' = IF Len(ops) > 0 /\ req[r].query = NoQuery
               THEN Settle(r, DocOpList(ops, req[r].needsFetch))
               ELSE [req EXCEPT ![r].pc = "rs"]
  /\ UNCHANGED <<db, now, call, cache, mem>>

\* returnSections: the sections are read; none is an error result
DocRead(r) ==
  /\ req[r].pc = "rs"
  /\ \E rk \in Rankings(db, TargetSlug(req[r]), req[r].query) :
       LET slug == TargetSlug(req[r])
           sections == IF req[r].query # NoQuery
                       THEN SearchSections(db, slug, req[r].query, QUERY_SECTION_LIMIT, rk)
                       ELSE Slice(GetAllSections(db, slug), DEFAULT_SECTION_LIMIT)
       IN req' = IF Len(sections) = 0 THEN Settle(r, ErrorResult("content", <<>>))
                 ELSE [req EXCEPT ![r].shown = sections, ![r].pc = "hdr"]
  /\ UNCHANGED <<db, now, call, cache, mem>>

\* returnSections: header (getPageMeta, getAllSections, hasOperations) and result
DocHeader(r) ==
  /\ req[r].pc = "hdr"
  /\ req' = Settle(r, [DocResp EXCEPT
                         !.kind = "sections", !.shown = req[r].shown,
                         !.total = Len(GetAllSections(db, TargetSlug(req[r]))),
                         !.refreshed = req[r].needsFetch,
                         !.opHint = HasOperations(db, TargetSlug(req[r]))])
  /\ UNCHANGED <<db, now, call, cache, mem>>

\* the caller has the result; the next call can be made
DocReturn(r) ==
  /\ req[r].pc = "done"
  /\ req' = [req EXCEPT ![r] = IdleDoc]
  /\ UNCHANGED <<db, now, call, cache, mem>>

InitDocs ==
  /\ db = EmptyDb
  /\ now = 0
  /\ req = [r \in Reqs |-> IdleDoc]
  /\ call = NoCall
  /\ cache = NoFile
  /\ mem = NoMem

DocStep(r) ==
  \/ Call(r)
  \/ ResolveIndexCached(r)
  \/ FetchIndex(r)
  \/ FetchIndexFails(r)
  \/ Expired(r)
  \/ PageFetch(r)
  \/ PageFetchFails(r)
  \/ PageStore(r)
  \/ PageStoreOps(r)
  \/ FindOp(r)
  \/ Available(r)
  \/ DocGetOps(r)
  \/ DocRead(r)
  \/ DocHeader(r)
  \/ DocReturn(r)

\* a call takes seconds and the TTL is five days: the clock of the model
\* moves between calls
DocTick == req[1].pc = "idle" /\ Tick

\* calls are handled one at a time, by req[1]
NextDocs ==
  \/ DocStep(1)
  \/ DocTick

SpecDocs == InitDocs /\ [][NextDocs]_vars

\* the handler's steps keep being taken: a call in progress is run to its end
\* by the event loop, and the caller goes on calling
SpecDocsFair == SpecDocs /\ WF_vars(NextDocs)

----------------------------------------------------------------------------
(* The embedder: the singleton pipeline of alegraEmbedder                  *)

MaxEmbedCalls == 3     \* embed() calls in flight at the same time
MaxLoads == 2          \* pipeline() loads started in one behaviour

Embedders == 1..MaxEmbedCalls

\* let _pipe = null; let _loading = null; no pipeline(..) promise created yet.
\* A load is named by its number; 0 stands for null. promises[i] is the state
\* of the promise of load i.
NoEmbedder == [_pipe |-> 0, _loading |-> 0, promises |-> <<>>]

\* chain: the promise embed(..).catch(..) made by warmUpEmbedder, "none" for a
\* call of embed by another caller
IdleEmbed ==
  [pc |-> "idle", text |-> <<>>, awaits |-> 0, model |-> 0, out |-> <<>>, chain |-> "none"]

\* GetEmbedder starting the load again once the load in flight has failed
GetEmbedderRetriesFailedLoad(m) ==
  IF m._pipe # 0 THEN [mem |-> m, pipe |-> m._pipe, promise |-> 0]
  ELSE IF m._loading # 0 /\ m.promises[m._loading] # "rejected"
  THEN [mem |-> m, pipe |-> 0, promise |-> m._loading]
  ELSE LET id == Len(m.promises) + 1
       IN [mem |-> [m EXCEPT !._loading = id, !.promises = Append(@, "pending")],
           pipe |-> 0, promise |-> id]

\* getEmbedder with no look at the load in flight
GetEmbedderLoadingUnseen(m) ==
  IF m._pipe # 0 THEN [mem |-> m, pipe |-> m._pipe, promise |-> 0]
  ELSE LET id == Len(m.promises) + 1
       IN [mem |-> [m EXCEPT !._loading = id, !.promises = Append(@, "pending")],
           pipe |-> 0, promise |-> id]

\* getEmbedder(): runs without an await, so as one step. It gives the loaded
\* pipeline, or the promise of the load in flight, or starts the load
\* pipeline("feature-extraction", MODEL_ID) and gives its promise.
GetEmbedder(m) ==
  IF m._pipe # 0 THEN [mem |-> m, pipe |-> m._pipe, promise |-> 0]
  ELSE IF m._loading # 0 THEN [mem |-> m, pipe |-> 0, promise |-> m._loading]
  ELSE LET id == Len(m.promises) + 1
       IN [mem |-> [m EXCEPT !._loading = id, !.promises = Append(@, "pending")],
           pipe |-> 0, promise |-> id]

\* embed(text): const model = await getEmbedder()
EmbedCall(r) ==
  /\ req[r].pc = "idle"
  /\ mem._pipe = 0 /\ mem._loading = 0 => Len(mem.promises) < MaxLoads
  /\ \E text \in {<<"a">>, <<"b">>} :
       LET g == GetEmbedder(mem)
       IN /\ mem' = g.mem
          /\ req' = [req EXCEPT ![r] = [IdleEmbed EXCEPT !.pc = "await", !.text = text,
                                                          !.awaits = g.promise,
                                                          !.model = g.pipe]]
  /\ UNCHANGED <<db, now, call, cache>>

\* the load finishes: .then((p) => { _pipe = p; _loading = null; return p; })
LoadResolves ==
  /\ mem._loading # 0 /\ mem.promises[mem._loading] = "pending"
  /\ mem' = [mem EXCEPT !._pipe = mem._loading, !._loading = 0,
                        !.promises[mem._loading] = "resolved"]
  /\ UNCHANGED <<db, now, req, call, cache>>

\* the load fails (download or ONNX error): the then-callback does not run
LoadRejects ==
  /\ mem._loading # 0 /\ mem.promises[mem._loading] = "pending"
  /\ mem' = [mem EXCEPT !.promises[mem._loading] = "rejected"]
  /\ UNCHANGED <<db, now, req, call, cache>>

\* the await of embed resumes: with the pipeline, or throwing the load's error
EmbedResume(r) ==
  /\ req[r].pc = "await"
  /\ \/ /\ req[r].awaits = 0
        /\ req' = [req EXCEPT ![r].pc = "run"]
     \/ /\ req[r].awaits # 0 /\ mem.promises[req[r].awaits] = "resolved"
        /\ req' = [req EXCEPT ![r].pc = "run", ![r].model = req[r].awaits]
     \/ /\ req[r].awaits # 0 /\ mem.promises[req[r].awaits] = "rejected"
        /\ req' = [req EXCEPT ![r].pc = "done", ![r].out = <<"rejected">>]
  /\ UNCHANGED <<db, now, call, cache, mem>>

\* const output = await model(input, ..); return new Float32Array(output.data)
EmbedRun(r) ==
  /\ req[r].pc = "run"
  /\ req' = [req EXCEPT ![r].pc = "done", ![r].out = Embed(req[r].text)]
  /\ UNCHANGED <<db, now, call, cache, mem>>

\* warmUpEmbedder(): embed("warm-up").catch(() => undefined), returning at once
WarmUpEmbedder(r) ==
  /\ req[r].pc = "idle"
  /\ mem._pipe = 0 /\ mem._loading = 0 => Len(mem.promises) < MaxLoads
  /\ LET g == GetEmbedder(mem)
     IN /\ mem' = g.mem
        /\ req' = [req EXCEPT ![r] = [IdleEmbed EXCEPT !.pc = "await", !.text = <<"w">>,
                                                        !.awaits = g.promise,
                                                        !.model = g.pipe,
                                                        !.chain = "pending"]]
  /\ UNCHANGED <<db, now, call, cache>>

\* the promise of embed("warm-up") settles: .catch(() => undefined) turns a
\* rejection into undefined and passes a vector on; nothing awaits the chain
WarmUpSettles(r) ==
  /\ req[r].pc = "done" /\ req[r].chain = "pending"
  /\ req' = [req EXCEPT ![r].pc = "settled", ![r].chain = "fulfilled",
                        ![r].out = IF @ = <<"rejected">> THEN <<>> ELSE @]
  /\ UNCHANGED <<db, now, call, cache, mem>>

\* the caller has the vector (or the error); the settled chain is dropped
EmbedReturn(r) ==
  /\ \/ req[r].pc = "done" /\ req[r].chain = "none"
     \/ req[r].pc = "settled"
  /\ req' = [req EXCEPT ![r] = IdleEmbed]
  /\ UNCHANGED <<db, now, call, cache, mem>>

InitEmbed ==
  /\ db = EmptyDb
  /\ now = 0
  /\ req = [r \in Embedders |-> IdleEmbed]
  /\ call = NoCall
  /\ cache = NoFile
  /\ mem = NoEmbedder

NextEmbed ==
  \/ \E r \in Embedders : EmbedCall(r) \/ EmbedResume(r) \/ EmbedRun(r) \/ EmbedReturn(r)
  \/ \E r \in Embedders : WarmUpEmbedder(r) \/ WarmUpSettles(r)
  \/ LoadResolves
  \/ LoadRejects

SpecEmbed == InitEmbed /\ [][NextEmbed]_vars

----------------------------------------------------------------------------
(* Direct calls on the page store over time                                *)

\* isOperationPageExpired(operationSlug): return isPageExpired(operationSlug)
IsOperationPageExpired(d, operationSlug, t) == IsPageExpired(d, operationSlug, t)

\* isPageExpired(slug)
LibIsPageExpired ==
  /\ \E slug \in LibSlugs :
       call' = [fn |-> "isPageExpired", slug |-> slug,
                out |-> IsPageExpired(db, slug, now)]
  /\ UNCHANGED <<db, now, req, cache, mem>>

\* isOperationPageExpired(operationSlug)
LibIsOperationPageExpired ==
  /\ \E slug \in LibSlugs :
       call' = [fn |-> "isOperationPageExpired", slug |-> slug,
                out |-> IsOperationPageExpired(db, slug, now)]
  /\ UNCHANGED <<db, now, req, cache, mem>>

\* deletePage(slug) of a storePage that did not go on to its transaction
LibDeletePage ==
  /\ \E slug \in LibSlugs :
       /\ db' = DeletePage(db, slug)
       /\ call' = [fn |-> "deletePage", slug |-> slug, changes |-> DeleteChanges(db, slug)]
  /\ UNCHANGED <<now, req, cache, mem>>

\* time passes between the calls
LibTick ==
  /\ \E t \in ClockValues : t > now /\ now' = t
  /\ call' = NoCall
  /\ UNCHANGED <<db, req, cache, mem>>

NextPages ==
  \/ LibReindex
  \/ LibDeletePage
  \/ LibIsPageExpired
  \/ LibIsOperationPageExpired
  \/ LibTick

SpecPages == Init /\ [][NextPages]_vars

----------------------------------------------------------------------------
(* Direct calls of the chunker                                             *)

MaxBlocks == 3         \* blocks (headings and paragraphs) of a markdown input

\* the blocks a markdown input is made of: an H2 heading, and paragraphs (no
\* blank line inside) shorter than MIN_SECTION_CHARS, between the two limits,
\* just under MAX_SECTION_CHARS, and longer than it
ChunkBlocks ==
  {Heading(2, 4, <<"b">>), Para(50, <<"a">>), Para(100, <<"a", "b">>),
   Para(2450, <<"a">>), Para(2600, <<"b">>)}

Markdowns == SeqsUpTo(ChunkBlocks, MaxBlocks)

InitChunk ==
  /\ db = EmptyDb
  /\ now = 0
  /\ req = [r \in Reqs |-> IdleReq]
  /\ call \in {[fn |-> "markdown", markdown |-> md, pageTitle |-> t, out |-> <<>>] :
                 md \in Markdowns, t \in {<<>>, <<"t">>}}
  /\ cache = NoFile
  /\ mem = NoMem

\* splitIntoSections(markdown, pageTitle)
Split ==
  /\ call.fn = "markdown"
  /\ call' = [call EXCEPT !.fn = "splitIntoSections",
                          !.out = SplitIntoSections(call.markdown, call.pageTitle)]
  /\ UNCHANGED <<db, now, req, cache, mem>>

NextChunk == Split

SpecChunk == InitChunk /\ [][NextChunk]_vars

----------------------------------------------------------------------------
(* The handler get_apiary_blueprint and the blueprint cache DocCache       *)

TTL_24_HOURS_MS == 86400000

\* the .apib cache file of the API: missing; else its mtime and content
NoBlueprintFile == [exists |-> FALSE, mtime |-> 0, doc |-> <<>>]

\* what `apiary fetch` can give for the API (never an empty output)
Blueprints == {<<"apib", 1>>, <<"apib", 2>>}

NullDoc == <<>>                 \* cachedDoc === null

\* the instants at which the clock is read: a file written at 0 is then aged
\* 0, exactly 24 hours, or one millisecond more
BlueprintClock == {0, TTL_24_HOURS_MS, TTL_24_HOURS_MS + 1}

BpResp == [kind |-> "none", note |-> "", doc |-> NullDoc]

IdleBp ==
  [pc |-> "idle", apiName |-> <<>>, forceRefresh |-> FALSE,
   cache0 |-> NoBlueprintFile,          \* the cache file when the call was made
   cachedDoc |-> NullDoc, expired |-> FALSE, reason |-> "",
   blueprint |-> NullDoc,
   fetches |-> 0, sets |-> 0,           \* calls of client.fetchBlueprint and cache.set
   failed |-> "",                       \* the step of the refresh that threw
   resp |-> BpResp]

\* DocCache.get(apiName)
DocCacheGet(c) == IF c.exists THEN c.doc ELSE NullDoc

\* DocCache.isExpired(apiName) at time t
DocCacheIsExpired(c, t) == ~c.exists \/ t - c.mtime > TTL_24_HOURS_MS

\* ShouldRefreshBlueprint without regard for the age of the cache entry
ShouldRefreshIgnoringExpiry(forceRefresh, cachedDoc, expired) ==
  forceRefresh \/ cachedDoc = NullDoc

\* shouldRefreshBlueprint({ forceRefresh, cachedDoc, expired })
ShouldRefreshBlueprint(forceRefresh, cachedDoc, expired) ==
  LET hasCache == cachedDoc # NullDoc
  IN forceRefresh \/ expired \/ ~hasCache

\* computeRefreshReason({ forceRefresh, cachedDoc, expired })
ComputeRefreshReason(forceRefresh, cachedDoc, expired) ==
  IF forceRefresh THEN "Manual"
  ELSE IF cachedDoc = NullDoc THEN "Nuevo"
  ELSE IF expired THEN "TTL Expirado" ELSE "Nuevo"

\* formatBlueprintResponse(message, blueprint): a success result
FormatBlueprintResponse(note, blueprint) ==
  [kind |-> "blueprint", note |-> note, doc |-> blueprint]

\* OnRefreshError with no fallback to the cached document
OnRefreshErrorNoFallback(cachedDoc) == [BpResp EXCEPT !.kind = "error"]

\* the catch block: the cached document if there is one, else an error result
OnRefreshError(cachedDoc) ==
  IF cachedDoc # NullDoc THEN FormatBlueprintResponse("Fallback", cachedDoc)
  ELSE [BpResp EXCEPT !.kind = "error"]

\* handleGetApiaryBlueprint(rawArguments, client, cache): safeParse
BpCall(r) ==
  /\ req[r].pc = "idle"
  /\ \E apiName \in {<<" ">>, <<"p">>}, f \in BOOLEAN :
       LET c == [IdleBp EXCEPT !.apiName = Trim(apiName), !.forceRefresh = f,
                               !.cache0 = cache]
       IN req' = [req EXCEPT ![r] =
                    IF Len(Trim(apiName)) >= 1 THEN [c EXCEPT !.pc = "get"]
                    ELSE [c EXCEPT !.pc = "done", !.resp.kind = "error",
                                   !.resp.note = "Invalid arguments"]]
  /\ UNCHANGED <<db, now, call, cache, mem>>

\* cachedDoc = await cache.get(apiName)
BpGet(r) ==
  /\ req[r].pc = "get"
  /\ req' = [req EXCEPT ![r].cachedDoc = DocCacheGet(cache), ![r].pc = "isExpired"]
  /\ UNCHANGED <<db, now, call, cache, mem>>

\* expired = await cache.isExpired(apiName); the cached document is returned
\* when no refresh is needed and there is one
BpIsExpired(r) ==
  /\ req[r].pc = "isExpired"
  /\ LET c == req[r]
         expired == DocCacheIsExpired(cache, now)
         needsRefresh == ShouldRefreshBlueprint(c.forceRefresh, c.cachedDoc, expired)
     IN req' = [req EXCEPT ![r] =
                  IF ~needsRefresh /\ c.cachedDoc # NullDoc
                  THEN [c EXCEPT !.expired = expired, !.pc = "done",
                                 !.resp = FormatBlueprintResponse("Cache valido", c.cachedDoc)]
                  ELSE [c EXCEPT !.expired = expired, !.pc = "fetch",
                                 !.reason = ComputeRefreshReason(c.forceRefresh, c.cachedDoc,
                                                                 expired)]]
  /\ UNCHANGED <<db, now, call, cache, mem>>

\* blueprint = await client.fetchBlueprint(apiName) resolves
BpFetch(r) ==
  /\ req[r].pc = "fetch"
  /\ \E b \in Blueprints :
       req' = [req EXCEPT ![r].blueprint = b, ![r].fetches = @ + 1, ![r].pc = "set"]
  /\ UNCHANGED <<db, now, call, cache, mem>>

\* client.fetchBlueprint(apiName) throws
BpFetchFails(r) ==
  /\ req[r].pc = "fetch"
  /\ req' = [req EXCEPT ![r].fetches = @ + 1, ![r].failed = "fetchBlueprint",
                        ![r].pc = "done", ![r].resp = OnRefreshError(req[r].cachedDoc)]
  /\ UNCHANGED <<db, now, call, cache, mem>>

\* await cache.set(apiName, blueprint) resolves; the fetched blueprint is returned
BpSet(r) ==
  /\ req[r].pc = "set"
  /\ cache' = [exists |-> TRUE, mtime |-> now, doc |-> req[r].blueprint]
  /\ req' = [req EXCEPT ![r].sets = @ + 1, ![r].pc = "done",
                        ![r].resp = FormatBlueprintResponse(req[r].reason, req[r].blueprint)]
  /\ UNCHANGED <<db, now, call, mem>>

\* cache.set throws (the directory or the file cannot be created)
BpSetFails(r) ==
  /\ req[r].pc = "set"
  /\ req' = [req EXCEPT ![r].sets = @ + 1, ![r].failed = "cache.set",
                        ![r].pc = "done", ![r].resp = OnRefreshError(req[r].cachedDoc)]
  /\ UNCHANGED <<db, now, call, cache, mem>>

\* the caller has the result; the next call can be made
BpReturn(r) ==
  /\ req[r].pc = "done"
  /\ req' = [req EXCEPT ![r] = IdleBp]
  /\ UNCHANGED <<db, now, call, cache, mem>>

\* time passes between the calls
BpTick ==
  /\ req[1].pc = "idle"
  /\ \E t \in BlueprintClock : t > now /\ now' = t
  /\ UNCHANGED <<db, req, call, cache, mem>>

InitBlueprint ==
  /\ db = EmptyDb
  /\ now = 0
  /\ req = [r \in Reqs |-> IdleBp]
  /\ call = NoCall
  /\ cache = NoBlueprintFile
  /\ mem = NoMem

BpStep(r) ==
  \/ BpCall(r)
  \/ BpGet(r)
  \/ BpIsExpired(r)
  \/ BpFetch(r)
  \/ BpFetchFails(r)
  \/ BpSet(r)
  \/ BpSetFails(r)
  \/ BpReturn(r)

NextBlueprint == BpStep(1) \/ BpTick

SpecBlueprint == InitBlueprint /\ [][NextBlueprint]_vars

----------------------------------------------------------------------------
(* The tool handlers of createApiaryToolHandlers and sampling detection    *)

MaxToolCalls == 2      \* listTools and callTool requests in flight together

ToolCallers == 1..MaxToolCalls

GENERATE_INTEGRATION == "generate_api_integration"
GENERATE_INTEGRATION_PLAN == "generate_api_integration_plan"

\* const baseTools: Tool[] = [..], by name
BaseTools ==
  <<"get_apiary_blueprint", "get_apiary_blueprint_summary", "list_apiary_apis",
    "alegra_list_modules", "alegra_list_submodules", "alegra_get_endpoint_docs">>

\* export const tools = [...baseTools, promptBasedTool, samplingTool]
Tools == BaseTools \o <<GENERATE_INTEGRATION_PLAN, GENERATE_INTEGRATION>>

SAMPLING_REQUIRED_TOOLS == {GENERATE_INTEGRATION}
PROMPT_BASED_TOOLS == {GENERATE_INTEGRATION_PLAN}

\* tools.filter((tool) => !hidden.has(tool.name))
FilterTools(hidden) == SelectSeq(Tools, LAMBDA name : name \notin hidden)

\* The closure of one createApiaryToolHandlers(client, cache, server) and the
\* module state of samplingDetector. "null" stands for null; the one promise
\* each of them ever holds is named 1, and 0 stands for no promise.
\*   check     : the promise detectSamplingSupport(server).then(..)
\*   detection : the promise that detectSamplingSupport(server) gave
NoToolHandlers ==
  [server |-> FALSE,
   samplingSupported |-> "null", samplingCheckPromise |-> 0, check |-> "none",
   detector |-> [samplingSupported |-> "null", detectionPromise |-> 0],
   detection |-> "none"]

ToolResp == [kind |-> "none", tools |-> <<>>, because |-> ""]

IdleTool ==
  [pc |-> "idle", fn |-> "", name |-> "", valid |-> FALSE,
   awaited |-> FALSE,        \* the call has waited for samplingCheckPromise
   sampling |-> "",          \* how the sampling of this call has failed, if it has
   resp |-> ToolResp]

\* createErrorResult(message), with the cause of the error
ToolError(because) == [ToolResp EXCEPT !.kind = "error", !.because = because]

\* createSuccessResult(text)
ToolSuccess(text) == [ToolResp EXCEPT !.kind = text]

\* detectSamplingSupport(server): the cached answer, or the detection in
\* flight, or a new test request sampling/createMessage
DetectSamplingSupport(m) ==
  IF m.detector.samplingSupported # "null"
  THEN [m EXCEPT !.detection = m.detector.samplingSupported]
  ELSE IF m.detector.detectionPromise # 0 THEN m
  ELSE [m EXCEPT !.detector.detectionPromise = 1, !.detection = "pending"]

\* if (samplingSupported === null && !samplingCheckPromise)
\*   samplingCheckPromise = detectSamplingSupport(server).then(..)
StartSamplingCheck(m) ==
  IF m.samplingSupported = "null" /\ m.samplingCheckPromise = 0
  THEN [DetectSamplingSupport(m) EXCEPT !.samplingCheckPromise = 1, !.check = "pending"]
  ELSE m

\* the filters at the end of getAvailableTools
AvailableTools(server, supported) ==
  IF ~server THEN FilterTools(SAMPLING_REQUIRED_TOOLS)
  ELSE IF supported = "false" THEN FilterTools(SAMPLING_REQUIRED_TOOLS)
  ELSE IF supported = "true" THEN FilterTools(PROMPT_BASED_TOOLS)
  ELSE Tools

\* listTools with no wait for the detection in flight
ListToolsNoAwait(r) ==
  /\ req[r].pc = "idle"
  /\ LET m == IF mem.server THEN StartSamplingCheck(mem) ELSE mem
     IN /\ mem' = m
        /\ req' = [req EXCEPT ![r] =
             [IdleTool EXCEPT !.fn = "listTools", !.pc = "done",
                              !.resp = [ToolResp EXCEPT !.kind = "tools",
                                 !.tools = AvailableTools(m.server, m.samplingSupported)]]]
  /\ UNCHANGED <<db, now, call, cache>>

\* listTools(request): getAvailableTools up to its await
ListTools(r) ==
  /\ req[r].pc = "idle"
  /\ LET m == IF mem.server THEN StartSamplingCheck(mem) ELSE mem
         c == [IdleTool EXCEPT !.fn = "listTools"]
     IN /\ mem' = m
        /\ req' = [req EXCEPT ![r] =
             IF m.server /\ m.samplingCheckPromise # 0
             THEN [c EXCEPT !.pc = "listAwait", !.awaited = TRUE]
             ELSE [c EXCEPT !.pc = "done",
                            !.resp = [ToolResp EXCEPT !.kind = "tools",
                               !.tools = AvailableTools(m.server, m.samplingSupported)]]]
  /\ UNCHANGED <<db, now, call, cache>>

\* the test request of the detection is answered, or fails
DetectionSettles ==
  /\ mem.detector.detectionPromise # 0 /\ mem.detector.samplingSupported = "null"
  /\ \E supported \in {"true", "false"} :
       mem' = [mem EXCEPT !.detector.samplingSupported = supported,
                          !.detector.detectionPromise = 0,
                          !.detection = IF @ = "pending" THEN supported ELSE @]
  /\ UNCHANGED <<db, now, req, call, cache>>

\* .then((supported) => { samplingSupported = supported;
\*                        samplingCheckPromise = null; return supported; })
SamplingCheckThen ==
  /\ mem.check = "pending" /\ mem.detection \in {"true", "false"}
  /\ mem' = [mem EXCEPT !.samplingSupported = mem.detection,
                        !.samplingCheckPromise = 0, !.check = "resolved"]
  /\ UNCHANGED <<db, now, req, call, cache>>

\* await samplingCheckPromise is over: the filters of getAvailableTools
ListToolsResume(r) ==
  /\ req[r].pc = "listAwait" /\ mem.check = "resolved"
  /\ req' = [req EXCEPT ![r].pc = "done",
                        ![r].resp = [ToolResp EXCEPT !.kind = "tools",
                           !.tools = AvailableTools(mem.server, mem.samplingSupported)]]
  /\ UNCHANGED <<db, now, call, cache, mem>>

\* the rest of callTool once sampling is known: the refusal of a sampling tool
\* without sampling, else the switch
RouteTool(c, m) ==
  IF c.name \in SAMPLING_REQUIRED_TOOLS /\ m.samplingSupported = "false"
  THEN [c EXCEPT !.pc = "done", !.sampling = "unavailable",
                 !.resp = ToolError("sampling is not available")]
  ELSE IF c.name = GENERATE_INTEGRATION
  THEN IF c.valid THEN [c EXCEPT !.pc = "agentContext"]
       ELSE [c EXCEPT !.pc = "done", !.resp = ToolError("Invalid arguments")]
  ELSE IF c.valid THEN [c EXCEPT !.pc = "done", !.resp = ToolSuccess("plan")]
       ELSE [c EXCEPT !.pc = "done", !.resp = ToolError("Invalid arguments")]

\* callTool(request) up to its await, for the two integration tools and a
\* name that is not registered
CallTool(r) ==
  /\ req[r].pc = "idle"
  /\ \E name \in {GENERATE_INTEGRATION, GENERATE_INTEGRATION_PLAN, "other"},
        valid \in BOOLEAN :
       LET c == [IdleTool EXCEPT !.fn = "callTool", !.name = name, !.valid = valid]
           sampled == name \in SAMPLING_REQUIRED_TOOLS
           m == IF sampled /\ mem.server THEN StartSamplingCheck(mem) ELSE mem
       IN /\ mem' = m
          /\ req' = [req EXCEPT ![r] =
               IF \A i \in 1..Len(Tools) : Tools[i] # name
               THEN [c EXCEPT !.pc = "done", !.resp = ToolError("not registered")]
               ELSE IF sampled /\ ~m.server
               THEN [c EXCEPT !.pc = "done", !.sampling = "unavailable",
                              !.resp = ToolError("requires sampling support")]
               ELSE IF sampled /\ m.samplingCheckPromise # 0
               THEN [c EXCEPT !.pc = "callAwait", !.awaited = TRUE]
               ELSE RouteTool(c, m)]
  /\ UNCHANGED <<db, now, call, cache>>

\* await samplingCheckPromise is over in callTool
CallToolResume(r) ==
  /\ req[r].pc = "callAwait" /\ mem.check = "resolved"
  /\ req' = [req EXCEPT ![r] = RouteTool(req[r], mem)]
  /\ UNCHANGED <<db, now, call, cache, mem>>

\* What a sampling/createMessage request of requestCompletion comes to: the
\* text, the error -32601 "Method not found", another error of the request
\* (a timeout, a refusal), or content that is not text.
SamplingOutcomes == {"text", "MethodNotFound", "RequestError", "NotText"}

\* the catch of handleGenerateApiIntegration: the plan executor after a
\* SamplingNotSupportedError, an error result after anything else
OnAgentError(c, outcome) ==
  IF outcome = "MethodNotFound" THEN [c EXCEPT !.pc = "planContext", !.sampling = outcome]
  ELSE [c EXCEPT !.pc = "done", !.sampling = outcome,
                 !.resp = ToolError("Failed to generate integration")]

\* runIntegrationAgent: fetchApiContext, which may throw with no sampling at all
AgentContext(r) ==
  /\ req[r].pc = "agentContext"
  /\ \E ok \in BOOLEAN :
       req' = [req EXCEPT ![r] =
          IF ok THEN [@ EXCEPT !.pc = "agentCode"]
          ELSE [@ EXCEPT !.pc = "done",
                         !.resp = ToolError("Failed to generate integration")]]
  /\ UNCHANGED <<db, now, call, cache, mem>>

\* runIntegrationAgent: generateCode, then generateTests
AgentSample(r) ==
  /\ req[r].pc \in {"agentCode", "agentTests"}
  /\ \E outcome \in SamplingOutcomes :
       req' = [req EXCEPT ![r] =
          IF outcome # "text" THEN OnAgentError(@, outcome)
          ELSE IF @.pc = "agentCode" THEN [@ EXCEPT !.pc = "agentTests"]
          ELSE [@ EXCEPT !.pc = "done", !.resp = ToolSuccess("guide by sampling")]]
  /\ UNCHANGED <<db, now, call, cache, mem>>

\* executeIntegrationPlan: the blueprint, then the two requestCompletion calls;
\* whatever it throws, handleGenerateIntegrationPlan gives the plan JSON
PlanStep(r) ==
  /\ req[r].pc \in {"planContext", "planCode", "planTests"}
  /\ \E outcome \in IF req[r].pc = "planContext" THEN {"text", "RequestError"}
                    ELSE SamplingOutcomes :
       req' = [req EXCEPT ![r] =
          IF outcome # "text" THEN [@ EXCEPT !.pc = "done", !.resp = ToolSuccess("plan")]
          ELSE IF @.pc = "planContext" THEN [@ EXCEPT !.pc = "planCode"]
          ELSE IF @.pc = "planCode" THEN [@ EXCEPT !.pc = "planTests"]
          ELSE [@ EXCEPT !.pc = "done", !.resp = ToolSuccess("guide by plan")]]
  /\ UNCHANGED <<db, now, call, cache, mem>>

\* the client has the answer
ToolReturn(r) ==
  /\ req[r].pc = "done"
  /\ req' = [req EXCEPT ![r] = IdleTool]
  /\ UNCHANGED <<db, now, call, cache, mem>>

\* The handlers are made with or without the server; the detector is new, or
\* holds what an earlier set of handlers of the process has detected.
InitTools ==
  /\ db = EmptyDb
  /\ now = 0
  /\ req = [r \in ToolCallers |-> IdleTool]
  /\ call = NoCall
  /\ cache = NoFile
  /\ \E server \in BOOLEAN, detected \in {"null", "true", "false"} :
       mem = [NoToolHandlers EXCEPT !.server = server,
                                    !.detector.samplingSupported = detected]

NextTools ==
  \/ \E r \in ToolCallers :
       \/ ListTools(r) \/ ListToolsResume(r)
       \/ CallTool(r) \/ CallToolResume(r)
       \/ AgentContext(r) \/ AgentSample(r) \/ PlanStep(r)
       \/ ToolReturn(r)
  \/ DetectionSettles
  \/ SamplingCheckThen

SpecTools == InitTools /\ [][NextTools]_vars

----------------------------------------------------------------------------
(* Direct calls of findOperation                                           *)

MaxFindOps == 3        \* operations stored for the page searched

\* operation links {name, url, slug} whose names and slugs match one another's
\* by different rules
FindOp1 == [name |-> <<"a", "b">>, url |-> <<"u", 1>>, slug |-> <<"o", "a">>]
FindOp2 == [name |-> <<"A">>, url |-> <<"u", 2>>, slug |-> <<"a", "-", "b">>]
FindOp3 == [name |-> <<"b", " ", "a">>, url |-> <<"u", 3>>, slug |-> <<"b">>]
FindOp4 == [name |-> <<"c">>, url |-> <<"u", 4>>, slug |-> <<"o", "b", "-", "a">>]
FindOps == {FindOp1, FindOp2, FindOp3, FindOp4}

FindQueries ==
  {<<"a">>, <<" ", "A">>, <<"b">>, <<"a", " ", "b">>, <<"b", " ", " ", "a">>,
   <<"o">>, <<"-">>, <<"d">>, <<" ">>}

\* the store after storePage(slug, ..) and storeOperations(slug, ops)
FindDb(ops) ==
  StoreOperations(StorePage(EmptyDb, SubSlug, SubUrl, <<<<"a">>>>, 0), SubSlug, ops)

InitFind ==
  /\ db \in {FindDb(ops) : ops \in SeqsUpTo(FindOps, MaxFindOps)}
  /\ now = 0
  /\ req = [r \in Reqs |-> IdleReq]
  /\ call = NoCall
  /\ cache = NoFile
  /\ mem = NoMem

\* findOperation(pageSlug, query): out is the row found, <<>> for null
LibFindOperation ==
  /\ call = NoCall
  /\ \E slug \in LibSlugs, q \in FindQueries :
       LET i == FindOperation(db, slug, q)
       IN call' = [fn |-> "findOperation", slug |-> slug, query |-> q,
                   out |-> IF i = 0 THEN <<>> ELSE <<GetOperations(db, slug)[i]>>]
  /\ UNCHANGED <<db, now, req, cache, mem>>

NextFind == LibFindOperation

SpecFind == InitFind /\ [][NextFind]_vars

----------------------------------------------------------------------------
(* Direct calls of extractEndpointContent on the embedded JSON of a page   *)

\* the url of the page whose content is extracted
ExtractUrl == UrlOfSlug(<<"a", "b">>)

\* lengths of the text built from an embedded document, around the two limits
ResultLens == {100, 101, 150, 151}

NoJsonDoc == [present |-> FALSE, api |-> FALSE, len |-> 0]

\* An embedded document: `api` tells whether it has an api object, `len` is
\* the number of characters of the text built from it (parts.join("\n"),
\* runs of blank lines collapsed, trimmed), the url header included.
JsonDocs == {[present |-> TRUE, api |-> api, len |-> n] : api \in BOOLEAN, n \in ResultLens}

\* parseNextDataJson(html) gave nothing
NoJsonData == [parsed |-> FALSE, document |-> NoJsonDoc, doc |-> NoJsonDoc]

\* The parsed JSON: `document` is its top-level "document" (ssr-props), `doc`
\* its props.pageProps.doc / page / currentDoc (__NEXT_DATA__), which always
\* goes through the api block.
JsonData ==
  {NoJsonData} \cup
  {[parsed |-> TRUE, document |-> a, doc |-> b] :
     a \in JsonDocs \cup {NoJsonDoc},
     b \in {d \in JsonDocs : d.api} \cup {NoJsonDoc}}

\* the text built from a document: the header `# Documentación: ${pageUrl}`,
\* then what the fields of the document give, d.len characters in all
BuiltText(d, pageUrl, words) ==
  LET header == 17 + UrlLen(pageUrl)
  IN <<Heading(1, header, <<"Documentacion">>), Para(d.len - header - 2, words)>>

\* extractContentFromSsrDoc(doc, pageUrl): <<>> for null
ExtractContentFromSsrDoc(d, pageUrl) ==
  IF ~d.api
  THEN IF d.len > 100 THEN BuiltText(d, pageUrl, <<"a">>) ELSE <<>>
  ELSE IF d.len > 150 THEN BuiltText(d, pageUrl, <<"a">>) ELSE <<>>

\* the body of extractContentFromNextData on the parsed JSON: <<>> for null
ExtractContentFromJson(data, pageUrl) ==
  IF ~data.parsed THEN <<>>
  ELSE IF data.document.present /\ ExtractContentFromSsrDoc(data.document, pageUrl) # <<>>
  THEN ExtractContentFromSsrDoc(data.document, pageUrl)
  ELSE IF ~data.doc.present THEN <<>>
  ELSE IF data.doc.len > 150 THEN BuiltText(data.doc, pageUrl, <<"a", "b">>) ELSE <<>>

\* the non-empty text lines of the HTML of a page
HtmlBodies == {<<>>, <<Para(40, <<"b">>)>>, <<Para(40, <<"b">>), Para(200, <<"b", "b">>)>>}

InitExtract ==
  /\ db = EmptyDb
  /\ now = 0
  /\ req = [r \in Reqs |-> IdleReq]
  /\ call = NoCall
  /\ cache = NoFile
  /\ mem = NoMem

\* extractEndpointContent(html, pageUrl) on a page with this JSON and this text
LibExtract ==
  /\ call = NoCall
  /\ \E data \in JsonData, body \in HtmlBodies :
       LET html == [next |-> ExtractContentFromJson(data, ExtractUrl), body |-> body]
       IN call' = [fn |-> "extractEndpointContent", data |-> data, html |-> html,
                   out |-> ExtractEndpointContent(html, ExtractUrl)]
  /\ UNCHANGED <<db, now, req, cache, mem>>

NextExtract == LibExtract

SpecExtract == InitExtract /\ [][NextExtract]_vars

----------------------------------------------------------------------------
(* Direct calls of extractOperationLinks on the sidebar data of a page     *)

MaxChildren == 2       \* child pages of one node of the navigation data

\* Slugs of pages are <<name>>; the k-th child page of a page is <<name, k>>,
\* so that a link tells the page it belongs to.
PageX == <<"x">>       \* the page whose links are extracted
PageY == <<"y">>       \* another page of the same sidebar
PageP == <<"p">>       \* the page above PageX in the navigation tree

LinksUrl == UrlOfSlug(PageX)

\* a node of the embedded navigation data: {title, slug, pages}
NavNode(title, slug, pages) == [title |-> title, slug |-> slug, pages |-> pages]
ChildNode(owner, k) == NavNode(owner \o <<k>>, owner \o <<k>>, <<>>)
ChildNodes(owner, n) == [k \in 1..n |-> ChildNode(owner, k)]
Untitled(owner) == <<NavNode(<<>>, owner \o <<1>>, <<>>)>>

\* mapChildNodesToOps(children): children with no title or no slug are skipped
MapChildNodesToOps(children) ==
  LET kept == SelectSeq(children, LAMBDA c : c.title # <<>> /\ c.slug # <<>>)
  IN [i \in 1..Len(kept) |->
        [name |-> kept[i].title, url |-> UrlOfSlug(kept[i].slug), slug |-> kept[i].slug]]

\* extractOpsFromDocChildren(data): the first candidate list that maps to links
RECURSIVE ExtractOpsFromDocChildren(_)
ExtractOpsFromDocChildren(candidates) ==
  IF candidates = <<>> THEN <<>>
  ELSE IF Len(Head(candidates)) > 0 /\ Len(MapChildNodesToOps(Head(candidates))) > 0
  THEN MapChildNodesToOps(Head(candidates))
  ELSE ExtractOpsFromDocChildren(Tail(candidates))

\* findChildrenInTree(nodes, targetSlug), depth first: [found, children]
RECURSIVE FindChildrenInTree(_, _)
FindChildrenInTree(nodes, targetSlug) ==
  IF nodes = <<>> THEN [found |-> FALSE, children |-> <<>>]
  ELSE LET n == Head(nodes)
           below == IF Len(n.pages) > 0 THEN FindChildrenInTree(n.pages, targetSlug)
                    ELSE [found |-> FALSE, children |-> <<>>]
       IN IF n.slug = targetSlug THEN [found |-> TRUE, children |-> n.pages]
          ELSE IF below.found THEN below
          ELSE FindChildrenInTree(Tail(nodes), targetSlug)

\* deriveTargetSlug(data, pageUrl): docSlug || urlSlug
DeriveTargetSlug(data, pageUrl) == IF data.docSlug # <<>> THEN data.docSlug ELSE pageUrl[2]

\* extractOpsFromCategoryTree(data, pageUrl)
ExtractOpsFromCategoryTree(data, pageUrl) ==
  LET targetSlug == DeriveTargetSlug(data, pageUrl)
      children == FindChildrenInTree(data.categories, targetSlug).children
  IN IF targetSlug = <<>> \/ ~data.hasCategories THEN <<>>
     ELSE IF Len(children) = 0 THEN <<>>
     ELSE MapChildNodesToOps(children)

\* the pages of all categories of the sidebar object, in the order of the loops
RECURSIVE SidebarPages(_)
SidebarPages(sidebar) ==
  IF sidebar = <<>> THEN <<>> ELSE Head(sidebar).pages \o SidebarPages(Tail(sidebar))

\* the loops of extractOpsFromSsrSidebar over slugsToFind: the children of the
\* first page of that slug that has any
RECURSIVE SsrSidebarLoop(_, _)
SsrSidebarLoop(slugsToFind, pages) ==
  IF slugsToFind = <<>> THEN <<>>
  ELSE LET hit(i) == pages[i].slug = Head(slugsToFind) /\ Len(pages[i].pages) > 0
           i == FindIndex([j \in 1..Len(pages) |-> hit(j)])
       IN IF i # 0 THEN MapChildNodesToOps(pages[i].pages)
          ELSE SsrSidebarLoop(Tail(slugsToFind), pages)

\* extractOpsFromSsrSidebar(data, pageUrl): the slug of the url, then the slug
\* of document.parent.uri
ExtractOpsFromSsrSidebar(data, pageUrl) ==
  LET urlSlug == pageUrl[2]
      both == SelectSeq(<<urlSlug, data.parentSlug>>, LAMBDA s : s # <<>>)
      slugsToFind == IF Len(both) = 2 /\ both[1] = both[2] THEN <<both[1]>> ELSE both
  IN IF ~data.hasSidebar THEN <<>>
     ELSE SsrSidebarLoop(slugsToFind, SidebarPages(data.sidebar))

\* The sidebar of the HTML: its <li> items in document order, each the link of
\* a page and, where it has one, the <ul class="subpages"> of links under it.
\* The items are short: all of them lie within the 800 characters that
\* liPattern allows between the link and the list.
SidebarItem(path, hasUl, links) == [path |-> path, hasUl |-> hasUl, links |-> links]

\* extractOpsFromNestedSidebarUl(html, pageUrl): liPattern finds the link of
\* the page and, its gap [\s\S]{0,800} being greedy, the last subpages list
\* within reach after it
ExtractOpsFromNestedSidebarUl(items, pageUrl) ==
  LET i == FindIndex([j \in 1..Len(items) |-> items[j].path = pageUrl[2]])
      after == {j \in 1..Len(items) : j >= i /\ items[j].hasUl}
  IN IF i = 0 \/ after = {} THEN <<>>
     ELSE MapChildNodesToOps(items[CHOOSE j \in after : \A k \in after : k <= j].links)

\* extractOperationLinks(html, pageUrl)
ExtractOperationLinks(html, pageUrl) ==
  LET data == html.data
      ops1 == IF data.parsed THEN ExtractOpsFromDocChildren(data.candidates) ELSE <<>>
      ops2a == IF data.parsed THEN ExtractOpsFromCategoryTree(data, pageUrl) ELSE <<>>
      ops2b == IF data.parsed THEN ExtractOpsFromSsrSidebar(data, pageUrl) ELSE <<>>
      ops3 == ExtractOpsFromNestedSidebarUl(html.items, pageUrl)
  IN IF Len(ops1) > 0 THEN ops1
     ELSE IF Len(ops2a) > 0 THEN ops2a
     ELSE IF Len(ops2b) > 0 THEN ops2b
     ELSE IF Len(ops3) > 0 THEN ops3
     ELSE <<>>

\* parseNextDataJson(html) gave nothing
NoNavData ==
  [parsed |-> FALSE, candidates |-> <<>>, docSlug |-> <<>>, hasCategories |-> FALSE,
   categories |-> <<>>, hasSidebar |-> FALSE, sidebar |-> <<>>, parentSlug |-> <<>>]

\* doc.children, page.children, .., document.pages: the lists found there
LinkCandidates ==
  {<<>>, <<ChildNodes(PageX, MaxChildren)>>, <<Untitled(PageX), ChildNodes(PageX, 1)>>}

\* the category trees: PageX under PageP beside PageY; PageX with no children
CategoryTrees ==
  {<<NavNode(PageY, PageY, ChildNodes(PageY, 1)),
     NavNode(PageP, PageP, <<NavNode(PageX, PageX, ChildNodes(PageX, MaxChildren))>>)>>,
   <<NavNode(PageX, PageX, <<>>), NavNode(PageY, PageY, ChildNodes(PageY, 1))>>}

\* the sidebar objects: PageX and PageY as pages of a category, with children;
\* PageX and PageY as the children of the page PageP
Sidebars ==
  {<<[pages |-> <<NavNode(PageY, PageY, ChildNodes(PageY, 1)),
                  NavNode(PageX, PageX, ChildNodes(PageX, MaxChildren))>>]>>,
   <<[pages |-> <<NavNode(PageP, PageP, <<NavNode(PageX, PageX, <<>>),
                                          NavNode(PageY, PageY, <<>>)>>)>>]>>}

NavData ==
  {NoNavData} \cup
  {[parsed |-> TRUE, candidates |-> c, docSlug |-> s, hasCategories |-> t # <<>>,
    categories |-> t, hasSidebar |-> b # <<>>, sidebar |-> b, parentSlug |-> p] :
     c \in LinkCandidates, s \in {<<>>, PageX, PageX \o <<1>>},
     t \in CategoryTrees \cup {<<>>}, b \in Sidebars \cup {<<>>},
     p \in {<<>>, PageX, PageP}}

\* the sidebars of the HTML: none; PageX with its list; PageX with no list
\* before PageY with its list; both with their lists
HtmlSidebars ==
  {<<>>,
   <<SidebarItem(PageX, TRUE, ChildNodes(PageX, MaxChildren))>>,
   <<SidebarItem(PageX, FALSE, <<>>), SidebarItem(PageY, TRUE, ChildNodes(PageY, 1))>>,
   <<SidebarItem(PageY, TRUE, ChildNodes(PageY, 1)), SidebarItem(PageX, TRUE, ChildNodes(PageX, 1))>>}

InitLinks ==
  /\ db = EmptyDb
  /\ now = 0
  /\ req = [r \in Reqs |-> IdleReq]
  /\ call = NoCall
  /\ cache = NoFile
  /\ mem = NoMem

\* extractOperationLinks(html, pageUrl) for the page PageX
LibExtractLinks ==
  /\ call = NoCall
  /\ \E data \in NavData, items \in HtmlSidebars :
       LET html == [data |-> data, items |-> items]
       IN call' = [fn |-> "extractOperationLinks", html |-> html,
                   out |-> ExtractOperationLinks(html, LinksUrl)]
  /\ UNCHANGED <<db, now, req, cache, mem>>

NextLinks == LibExtractLinks

SpecLinks == InitLinks /\ [][NextLinks]_vars

----------------------------------------------------------------------------
(* embedPageSections running while storePage replaces the page             *)

MaxEmbedStores == 2    \* storePage calls in one behaviour of SpecEmbedStore
MaxEmbedRuns == 2      \* embedPageSections calls in flight at the same time

EmbedRuns == 1..MaxEmbedRuns

\* two versions of the page, with no section text in common
EmbedDocs == {<<<<"a">>, <<"a", "b">>>>, <<<<"b">>>>, <<>>}

IdleRun == [pc |-> "idle", sections |-> <<>>, pairs |-> <<>>, threw |-> FALSE]

\* The transaction of upserts with foreign_keys off: rows for sections that
\* are gone are written too
UpsertVectorsNoForeignKey(d, pairs) ==
  LET ids == {pairs[i].section_id : i \in 1..Len(pairs)}
  IN [d EXCEPT !.vec = {v \in @ : v.section_id \notin ids} \cup Range(pairs)]

\* db.transaction(() => { for (const [id, blob] of pairs) upsert.run(id, blob) })():
\* INSERT OR REPLACE by section_id; a row whose section_id is no row of
\* alegra_sections violates the foreign key, the statement throws and the
\* transaction rolls back
UpsertVectors(d, pairs) ==
  LET ids == {pairs[i].section_id : i \in 1..Len(pairs)}
  IN IF \E id \in ids : \A s \in d.sections : s.id # id THEN d
     ELSE [d EXCEPT !.vec = {v \in @ : v.section_id \notin ids} \cup Range(pairs)]

\* storePage(slug, ..) is called
EsStoreCall ==
  /\ call = NoCall
  /\ db.seqPage < MaxEmbedStores
  /\ \E secs \in EmbedDocs :
       call' = [fn |-> "storePage", pc |-> "delete", secs |-> secs]
  /\ UNCHANGED <<db, now, req, cache, mem>>

\* storePage: await deletePage(slug)
EsStoreDelete ==
  /\ call.fn = "storePage" /\ call.pc = "delete"
  /\ db' = DeletePage(db, SubSlug)
  /\ call' = [call EXCEPT !.pc = "insert"]
  /\ UNCHANGED <<now, req, cache, mem>>

\* storePage: tx()
EsStoreInsert ==
  /\ call.fn = "storePage" /\ call.pc = "insert"
  /\ db' = InsertPageTx(db, SubSlug, SubUrl, call.secs, now)
  /\ call' = NoCall
  /\ UNCHANGED <<now, req, cache, mem>>

\* embedPageSections(slug) is called: import, openDb
EsEmbedCall(r) ==
  /\ req[r].pc = "idle"
  /\ req' = [req EXCEPT ![r] = [IdleRun EXCEPT !.pc = "read"]]
  /\ UNCHANGED <<db, now, call, cache, mem>>

\* const sections = await getAllSections(slug); if (sections.length === 0) return
EsEmbedRead(r) ==
  /\ req[r].pc = "read"
  /\ LET sections == GetAllSections(db, SubSlug)
     IN req' = [req EXCEPT ![r].sections = sections,
                           ![r].pc = IF Len(sections) = 0 THEN "done" ELSE "embed"]
  /\ UNCHANGED <<db, now, call, cache, mem>>

\* const vec = await embed(..) resumes: the pair is pushed; after the last
\* section the loop ends and the transaction of upserts runs at once
EsEmbedNext(r) ==
  /\ req[r].pc = "embed"
  /\ LET s == req[r].sections[Len(req[r].pairs) + 1]
         pairs == Append(req[r].pairs, [section_id |-> s.id, embedding |-> Embed(s.text)])
     IN IF Len(pairs) < Len(req[r].sections)
        THEN /\ req' = [req EXCEPT ![r].pairs = pairs]
             /\ db' = db
        ELSE /\ db' = UpsertVectors(db, pairs)
             /\ req' = [req EXCEPT ![r].pairs = pairs, ![r].pc = "done",
                                   ![r].threw = \E i \in 1..Len(pairs) :
                                      \A x \in db.sections : x.id # pairs[i].section_id]
  /\ UNCHANGED <<now, call, cache, mem>>

\* the promise of embedPageSections has settled
EsEmbedReturn(r) ==
  /\ req[r].pc = "done"
  /\ req' = [req EXCEPT ![r] = IdleRun]
  /\ UNCHANGED <<db, now, call, cache, mem>>

InitEmbedStore ==
  /\ db = EmptyDb
  /\ now = 0
  /\ req = [r \in EmbedRuns |-> IdleRun]
  /\ call = NoCall
  /\ cache = NoFile
  /\ mem = NoMem

NextEmbedStore ==
  \/ EsStoreCall \/ EsStoreDelete \/ EsStoreInsert
  \/ \E r \in EmbedRuns : EsEmbedCall(r) \/ EsEmbedRead(r) \/ EsEmbedNext(r) \/ EsEmbedReturn(r)

SpecEmbedStore == InitEmbedStore /\ [][NextEmbedStore]_vars

----------------------------------------------------------------------------
(* The handler on a site where pages share a slug: deriveSlugFromUrl keeps  *)
(* the last path segment of a link, so links to different urls can carry    *)
(* the same slug                                                            *)

MaxSharedStores == 3   \* pages fetched and stored in one behaviour of SpecShared

\* a url other than UrlOfSlug(slug) with the same last path segment
OtherUrlOfSlug(slug) == <<"v", slug>>

\* a second catalog entry with the slug of SubZ, listed under the first module
SubW == [SubZ EXCEPT !.url = OtherUrlOfSlug(SubZ.slug)]
SharedCatalogs == {<<ModX(<<SubX, SubY, SubW>>), ModY>>}

\* the sidebar of a submodule page links the page itself under another path:
\* the operation has the slug of its submodule
OwnSlugOps(sub) ==
  <<[name |-> <<"A", "b">>, url |-> OtherUrlOfSlug(sub.slug), slug |-> sub.slug]>>

\* the sidebars of two submodules link different urls with the same last segment
SameSlugOps(sub) ==
  LET slug == <<"o", "a">>
  IN <<[name |-> <<"A", "b">>,
        url |-> IF sub.slug = SubX.slug THEN UrlOfSlug(slug) ELSE OtherUrlOfSlug(slug),
        slug |-> slug]>>

SharedSidebars(sub) == {<<>>, OwnSlugOps(sub), SameSlugOps(sub)}

\* resolveAlegraIndex(false): fetchIndex() resolves and the cache file is written
SharedFetchIndex(r) ==
  /\ req[r].pc = "index"
  /\ IndexIsExpired(cache, now)
  /\ \E modules \in SharedCatalogs :
       /\ cache' = [exists |-> TRUE, mtime |-> now, modules |-> modules]
       /\ req' = [AfterIndex(r, modules) EXCEPT ![r].fetched = Append(@, IndexUrl)]
  /\ UNCHANGED <<db, now, call, mem>>

\* fetchEndpointPage(url) / fetchOperationPage(url) resolves
SharedPageFetch(r) ==
  /\ req[r].pc = "fetch"
  /\ db.seqPage < MaxSharedStores
  /\ \E ops \in SharedSidebars(req[r].sub) :
       /\ req[r].stage = "op" => ops = <<>>
       /\ req' = [req EXCEPT
            ![r].html = FullPage,
            ![r].secs = SectionTexts(SplitIntoSections(
                          ExtractEndpointContent(FullPage, TargetUrl(req[r])), PageTitle(req[r]))),
            ![r].ops = ops,
            ![r].fetched = Append(@, TargetUrl(req[r])),
            ![r].pc = "store"]
  /\ UNCHANGED <<db, now, call, cache, mem>>

SharedStep(r) ==
  \/ Call(r)
  \/ ResolveIndexCached(r)
  \/ SharedFetchIndex(r)
  \/ FetchIndexFails(r)
  \/ Expired(r)
  \/ SharedPageFetch(r)
  \/ PageFetchFails(r)
  \/ PageStore(r)
  \/ PageStoreOps(r)
  \/ FindOp(r)
  \/ Available(r)
  \/ DocGetOps(r)
  \/ DocRead(r)
  \/ DocHeader(r)
  \/ DocReturn(r)

NextShared ==
  \/ SharedStep(1)
  \/ DocTick

SpecShared == InitDocs /\ [][NextShared]_vars

----------------------------------------------------------------------------
(* resolveAlegraIndex while the catalog file is deleted from the cache      *)
(* directory                                                                *)

IdleIndex ==
  [pc |-> "idle", force |-> FALSE, expired |-> FALSE,
   missingAt |-> "none",      \* the file operation that found the file missing
   fetched |-> FALSE, failed |-> FALSE, wrote |-> FALSE,
   out |-> [kind |-> "none"]]

\* AlegraIndexCache.get with the ENOENT of readFile thrown on to the caller
IndexCacheReadThrows(c) ==
  IF c.exists THEN [kind |-> "content", modules |-> c.modules] ELSE [kind |-> "thrown"]

\* AlegraIndexCache.get after fileExists: readFile, ENOENT answered with null
IndexCacheRead(c) ==
  IF c.exists THEN [kind |-> "content", modules |-> c.modules] ELSE [kind |-> "null"]

\* resolveAlegraIndex(forceRefresh): await AlegraIndexCache.isExpired()
RiCall(r) ==
  /\ req[r].pc = "idle"
  /\ \E f \in BOOLEAN : req' = [req EXCEPT ![r] = [IdleIndex EXCEPT !.pc = "access", !.force = f]]
  /\ UNCHANGED <<db, now, call, cache, mem>>

\* after isExpired: the cached catalog is read unless forced or expired
RiAfterExpired(c, expired) ==
  [c EXCEPT !.expired = expired,
            !.pc = IF ~c.force /\ ~expired THEN "getAccess" ELSE "fetch"]

\* isExpiredByPath: if (!(await fileExists(filePath))) return true
RiAccess(r) ==
  /\ req[r].pc = "access"
  /\ req' = [req EXCEPT ![r] =
               IF cache.exists THEN [@ EXCEPT !.pc = "stat"]
               ELSE RiAfterExpired([@ EXCEPT !.missingAt = "access"], TRUE)]
  /\ UNCHANGED <<db, now, call, cache, mem>>

\* isExpiredByPath: stat and the comparison with the TTL; ENOENT gives true
RiStat(r) ==
  /\ req[r].pc = "stat"
  /\ req' = [req EXCEPT ![r] =
               IF cache.exists THEN RiAfterExpired(@, now - cache.mtime > TTL_5_DAYS_MS)
               ELSE RiAfterExpired([@ EXCEPT !.missingAt = "stat"], TRUE)]
  /\ UNCHANGED <<db, now, call, cache, mem>>

\* AlegraIndexCache.get: if (!(await fileExists(filePath))) return null
RiGetAccess(r) ==
  /\ req[r].pc = "getAccess"
  /\ req' = [req EXCEPT ![r] =
               IF cache.exists THEN [@ EXCEPT !.pc = "read"]
               ELSE [@ EXCEPT !.missingAt = "getAccess", !.pc = "fetch"]]
  /\ UNCHANGED <<db, now, call, cache, mem>>

\* AlegraIndexCache.get: readFile; if (cached) return JSON.parse(cached)
RiRead(r) ==
  /\ req[r].pc = "read"
  /\ LET got == IndexCacheRead(cache)
     IN req' = [req EXCEPT ![r] =
                  IF got.kind = "content"
                  THEN [@ EXCEPT !.pc = "done",
                                 !.out = [kind |-> "index", modules |-> got.modules]]
                  ELSE IF got.kind = "null"
                  THEN [@ EXCEPT !.missingAt = "read", !.pc = "fetch"]
                  ELSE [@ EXCEPT !.missingAt = "read", !.pc = "done",
                                 !.out = [kind |-> "thrown"]]]
  /\ UNCHANGED <<db, now, call, cache, mem>>

\* const index = await AlegraDocsScraper.fetchIndex()
RiFetch(r) ==
  /\ req[r].pc = "fetch"
  /\ \E modules \in Catalogs :
       req' = [req EXCEPT ![r].pc = "set", ![r].fetched = TRUE,
                          ![r].out = [kind |-> "index", modules |-> modules]]
  /\ UNCHANGED <<db, now, call, cache, mem>>

\* fetchIndex() throws: the site cannot be reached
RiFetchFails(r) ==
  /\ req[r].pc = "fetch"
  /\ req' = [req EXCEPT ![r].pc = "done", ![r].failed = TRUE,
                        ![r].out = [kind |-> "thrown"]]
  /\ UNCHANGED <<db, now, call, cache, mem>>

\* await AlegraIndexCache.set(..): the directory is made if missing, the file
\* written; return index
RiSet(r) ==
  /\ req[r].pc = "set"
  /\ cache' = [exists |-> TRUE, mtime |-> now, modules |-> req[r].out.modules]
  /\ req' = [req EXCEPT ![r].pc = "done", ![r].wrote = TRUE]
  /\ UNCHANGED <<db, now, call, mem>>

\* the caller has the catalog (or the error)
RiReturn(r) ==
  /\ req[r].pc = "done"
  /\ req' = [req EXCEPT ![r] = IdleIndex]
  /\ UNCHANGED <<db, now, call, cache, mem>>

\* somebody removes the catalog file from the cache directory
DeleteCacheFile ==
  /\ cache.exists
  /\ cache' = NoFile
  /\ UNCHANGED <<db, now, req, call, mem>>

InitIndex ==
  /\ db = EmptyDb
  /\ now = 0
  /\ req = [r \in Reqs |-> IdleIndex]
  /\ call = NoCall
  /\ cache = NoFile
  /\ mem = NoMem

RiStep(r) ==
  \/ RiCall(r)
  \/ RiAccess(r)
  \/ RiStat(r)
  \/ RiGetAccess(r)
  \/ RiRead(r)
  \/ RiFetch(r)
  \/ RiFetchFails(r)
  \/ RiSet(r)
  \/ RiReturn(r)

NextIndex ==
  \/ \E r \in Reqs : RiStep(r)
  \/ DeleteCacheFile
  \/ Tick

SpecIndex == InitIndex /\ [][NextIndex]_vars

----------------------------------------------------------------------------
(* Claims                                                                  *)

Texts(rows) == [i \in 1..Len(rows) |-> rows[i].text]
Names(rows) == [i \in 1..Len(rows) |-> rows[i].name]
Links(rows) == [i \in 1..Len(rows) |-> [name |-> rows[i].name, url |-> rows[i].url,
                                         slug |-> rows[i].slug]]

\* the positions at which a request reads the page of its slug
ReadPcs == {"getops", "rs", "rs_all", "hdr"}

\* C1: while storePage replaces a stored page (its DELETE removed a row and it
\* is suspended before its insert transaction), a read of the slug by another
\* request returns a page row with the complete section list of one scrape:
\* never no page row, never a partial section list.
C1_ReadsSeeWholePage ==
  \A a, b \in Reqs :
    (a # b /\ req[a].pc = "sp_insert" /\ req[a].changes > 0 /\ req[b].pc \in ReadPcs)
      => /\ HasPage(db, SubSlug)
         /\ \E n \in SectionCounts : Texts(GetAllSections(db, SubSlug)) = SiteSections(n)

\* C2: while a refresh that discovered a non-empty operation list is between
\* its storePage and its storeOperations, a request without query that reads
\* the operation list of the same submodule does not find the stored page
\* with no operation (it would be answered with leaf sections).
C2_OperationsReplacedWithPage ==
  \A a, b \in Reqs :
    (a # b /\ req[a].pc = "storeops" /\ Len(req[a].ops) > 0
       /\ req[b].pc = "getops" /\ req[b].query = NoQuery /\ HasPage(db, SubSlug))
      => Len(GetOperations(db, SubSlug)) > 0

\* rows of a table that no page row owns
Orphans(d, rows) == {x \in rows : ~\E p \in d.pages : p.id = x.page_id}

\* C3: right after a re-indexing of a slug (storePage then storeOperations),
\* whatever was indexed before, exactly one page row has the slug and the
\* stored sections and operations are those of this extraction, in order,
\* with no row left over from an earlier one.
C3_ReindexKeepsLastExtraction ==
  (call.fn = "reindex") =>
    /\ Cardinality({p \in db.pages : p.slug = call.slug}) = 1
    /\ Texts(GetAllSections(db, call.slug)) = call.secs
    /\ Links(GetOperations(db, call.slug)) = call.ops
    /\ Cardinality(SectionsOfPage(db, PageOf(db, call.slug).id)) = Len(call.secs)
    /\ Cardinality(OperationsOfPage(db, PageOf(db, call.slug).id)) = Len(call.ops)
    /\ Orphans(db, db.sections) = {} /\ Orphans(db, db.operations) = {}

\* C3 witness: the slug was indexed twice, the second extraction smaller
C3_Witness ==
  /\ call.fn = "reindex"
  /\ db.seqPage = 2 /\ Cardinality(db.pages) = 1
  /\ Len(call.secs) > 0 /\ db.seqSection > 2 * Len(call.secs)
  /\ Len(call.ops) > 0 /\ db.seqOp > 2 * Len(call.ops)

\* the operation rows not owned by the page of another slug
OperationRowsOf(d, slug) ==
  {o \in d.operations : ~\E p \in d.pages : p.id = o.page_id /\ p.slug # slug}

\* C4: a request with forceRefresh whose scrape discovers no operation leaves
\* no operation row for the slug, whatever was stored before, and is not
\* answered with an operation list (requests one at a time).
C4_StaleOperationsDeleted ==
  \A r \in Reqs :
    (req[r].force /\ req[r].pc \in ReadPcs \cup {"done"}
       /\ Len(req[r].secs) > 0 /\ Len(req[r].ops) = 0)
      => /\ GetOperations(db, SubSlug) = <<>>
         /\ OperationRowsOf(db, SubSlug) = {}
         /\ req[r].resp.kind # "oplist"

\* C4 witness: the first stored page had 3 operations or more, the forced
\* refresh stored the second page with none and was answered with sections
C4_Witness ==
  \E r \in Reqs :
    /\ req[r].pc = "done" /\ req[r].force /\ req[r].resp.kind = "sections"
    /\ Len(req[r].secs) > 0 /\ Len(req[r].ops) = 0
    /\ db.seqPage = 2 /\ db.seqOp >= 3 /\ db.operations = {}

\* C5: storeOperations(pageSlug, []) changes nothing in the store
C5_EmptyStoreOperationsIsNoOp ==
  (call.fn = "storeOperations" /\ call.ops = <<>>) => db = call.before

\* C5 witness: the call was made on a page that has operations and vectors
C5_Witness ==
  /\ call.fn = "storeOperations" /\ call.ops = <<>>
  /\ HasOperations(db, call.slug)
  /\ VecCount(db, PageOf(db, call.slug).id) > 0

\* C7: a sections response shows at most QUERY_SECTION_LIMIT sections when a
\* query was supplied and at most DEFAULT_SECTION_LIMIT when none was
C7_ResponseWithinSectionLimit ==
  \A r \in Reqs :
    (req[r].resp.kind = "sections") =>
      Len(req[r].resp.shown) <= (IF req[r].query = NoQuery THEN DEFAULT_SECTION_LIMIT
                                 ELSE QUERY_SECTION_LIMIT)

\* the rows of the sequence all belong to the page stored under slug
RowsOfPage(d, slug, rows) ==
  \A i \in 1..Len(rows) : HasPage(d, slug) /\ rows[i].page_id = PageOf(d, slug).id

\* C6: searchSections returns at most `limit` sections, all of the page; when
\* the safe query is empty or matches no section it returns the first
\* min(limit, n) sections in position order.
C6_SearchSectionsWithinLimit ==
  (call.fn = "searchSections") =>
    /\ Len(call.out) <= call.limit
    /\ RowsOfPage(db, call.slug, call.out)
    /\ (SafeQuery(call.query) = <<>>
          \/ FtsMatching(db, PageOf(db, call.slug).id, SafeQuery(call.query)) = {})
         => call.out = Slice(GetAllSections(db, call.slug), call.limit)

\* C8: on a page with no stored vector, hybridSearchSections returns the
\* sequence searchSections returns for the same slug, query and limit
C8_HybridEqualsKeywordWithoutVectors ==
  (call.fn = "hybridSearchSections" /\ VecCount(db, PageOf(db, call.slug).id) = 0)
    => call.out = call.kw

\* C8 witness: such a call whose keyword result is ranked, not in page order
C8_Witness ==
  /\ call.fn = "hybridSearchSections"
  /\ VecCount(db, PageOf(db, call.slug).id) = 0
  /\ Len(call.out) >= 2
  /\ call.out[1].position > call.out[2].position

\* the ids with a fused score: those of either candidate list
Candidates(ftsIds, vecIds) == Range(ftsIds) \cup Range(vecIds)

\* C9: when both candidate lists hold the same id at rank 0, that id has the
\* strictly highest fused score and is the first of the selected ids, for
\* every constant k > 0 and every limit >= 1
C9_CommonFirstRanksFirst ==
  (call.fn = "rrf" /\ Len(call.ftsIds) > 0 /\ Len(call.vecIds) > 0
     /\ call.ftsIds[1] = call.vecIds[1])
    => LET w == call.ftsIds[1]
           score(id) == RrfScore(call.ftsIds, call.vecIds, call.k, id)
       IN /\ \A id \in Candidates(call.ftsIds, call.vecIds) \ {w} :
               ScoreGt(score(w), score(id))
          /\ Len(call.top) >= 1 /\ call.top[1] = w

\* C9 witness: the lists agree on the first id only, with the constant of the code
C9_Witness ==
  /\ call.fn = "rrf" /\ call.k = K_RRF /\ call.limit = 1
  /\ Len(call.ftsIds) = MaxIds /\ Len(call.vecIds) = MaxIds
  /\ call.ftsIds[1] = call.vecIds[1] /\ call.ftsIds[2] # call.vecIds[2]

\* C10: on a page with stored vectors, hybridSearchSections returns at most
\* `limit` sections of the page, each with fewer than `limit` candidates of a
\* strictly higher fused score, in ascending document position
C10_HybridTopByScoreInPageOrder ==
  (call.fn = "hybridSearchSections" /\ VecCount(db, PageOf(db, call.slug).id) > 0)
    => LET score(id) == RrfScore(call.ftsIds, call.vecIds, K_RRF, id)
           cand == Candidates(call.ftsIds, call.vecIds)
       IN /\ Len(call.out) <= call.limit
          /\ RowsOfPage(db, call.slug, call.out)
          /\ \A i \in 1..Len(call.out) :
               /\ call.out[i].id \in cand
               /\ Cardinality({id \in cand : ScoreGt(score(id), score(call.out[i].id))})
                    < call.limit
          /\ \A i, j \in 1..Len(call.out) :
               i < j => call.out[i].position < call.out[j].position

\* C10 witness: the limit cuts the candidates and the best fused id is not
\* the first returned section
C10_Witness ==
  /\ call.fn = "hybridSearchSections"
  /\ VecCount(db, PageOf(db, call.slug).id) > 0
  /\ Len(call.ftsIds) > 0
  /\ Len(call.out) = call.limit /\ call.limit >= 2
  /\ Cardinality(Candidates(call.ftsIds, call.vecIds)) > call.limit
  /\ RrfTopIds(call.ftsIds, call.vecIds, K_RRF, call.limit)[1] # call.out[1].id

\* C11: a request without operation and without query that got past the
\* ensure-fresh step (the page was fresh, or this request scraped and stored
\* it) and whose submodule page has a stored operation is answered with the
\* operation list, the stored operations in sidebar order, and no section
\* (requests one at a time).
C11_ContainerAnsweredWithOperationList ==
  \A r \in Reqs :
    (req[r].pc = "done" /\ req[r].query = NoQuery
       /\ (~req[r].needsFetch \/ Len(req[r].secs) > 0)
       /\ HasOperations(db, SubSlug))
      => /\ req[r].resp.kind = "oplist"
         /\ req[r].resp.shown = GetOperations(db, SubSlug)
         /\ \A i \in 1..Len(req[r].resp.shown) : req[r].resp.shown[i] \notin db.sections

\* C11 witness: the page was fresh, its operations stored by an earlier request
C11_Witness ==
  \E r \in Reqs :
    /\ req[r].pc = "done" /\ req[r].query = NoQuery /\ ~req[r].force
    /\ ~req[r].needsFetch /\ req[r].secs = <<>>
    /\ req[r].resp.kind = "oplist" /\ Len(req[r].resp.shown) = MaxOps
    /\ Len(GetAllSections(db, SubSlug)) > 0

\* the call in flight in SpecDocs
TheCall == req[1]

\* the page urls fetched by a call, in order (the catalog fetch left out)
PageFetches(c) == SelectSeq(c.fetched, LAMBDA u : u # IndexUrl)

\* a slug is stale in store d at time t: no page row, or older than the TTL
Stale(d, slug, t) ==
  \A p \in d.pages : p.slug = slug => t - p.fetched_at > TTL_5_DAYS_MS

\* C12: for a call that names an operation and resolves it, the page fetches
\* are, in this order, the submodule url iff forceRefresh or the submodule slug
\* was stale, then the operation url iff forceRefresh or the operation slug was
\* stale; the operation is the one findOperation gives on the operation list
\* stored after the first step; the sections returned are rows of the page
\* stored under the operation's slug.
C12_OperationStepsInOrder ==
  LET c == TheCall
  IN (c.pc = "done" /\ c.operation # NoOperation /\ c.stage = "op")
     => /\ PageFetches(c) =
             (IF c.force \/ Stale(c.before, c.sub.slug, now) THEN <<c.sub.url>> ELSE <<>>)
             \o (IF c.force \/ Stale(c.before, c.op.slug, now) THEN <<c.op.url>> ELSE <<>>)
        /\ FindOperation(db, c.sub.slug, c.operation) # 0
        /\ c.op = GetOperations(db, c.sub.slug)[FindOperation(db, c.sub.slug, c.operation)]
        /\ c.resp.kind = "sections"
             => /\ RowsOfPage(db, c.op.slug, c.resp.shown)
                /\ Len(c.resp.shown) > 0

\* C12 witness: submodule page fresh, operation page stale, one fetch, of the
\* operation url, then a sections result
C12_Witness ==
  LET c == TheCall
  IN /\ c.pc = "done" /\ c.stage = "op" /\ ~c.force
     /\ ~Stale(c.before, c.sub.slug, now) /\ Stale(c.before, c.op.slug, now)
     /\ c.fetched = <<c.op.url>>
     /\ c.resp.kind = "sections"

\* the slugs of the operation links the site serves
OperationSlugs == {SiteOp(i).slug : i \in 1..3}

\* what store d holds under the slugs of S: page rows and their section rows
StoredUnder(d, S) ==
  LET pages == {p \in d.pages : p.slug \in S}
  IN [pages |-> pages,
      sections |-> {x \in d.sections : \E p \in pages : p.id = x.page_id},
      operations |-> {o \in d.operations : \E p \in pages : p.id = o.page_id}]

\* C13: when the operation named matches none of the operations stored for the
\* submodule (after the submodule page was ensured fresh), the call ends with
\* an error result listing the names of all those operations; no operation
\* url was fetched and nothing stored under an operation slug has changed.
C13_UnknownOperationListsStored ==
  LET c == TheCall
  IN (c.pc = "done" /\ c.operation # NoOperation /\ c.sub # NoEntry /\ ~c.failed
        /\ FindOperation(db, c.sub.slug, c.operation) = 0)
     => /\ c.resp.kind = "error"
        /\ c.resp.available = NameList(GetOperations(db, c.sub.slug))
        /\ \A i \in 1..Len(c.fetched) : c.fetched[i] \in {IndexUrl, c.sub.url}
        /\ StoredUnder(db, OperationSlugs) = StoredUnder(c.before, OperationSlugs)

\* C13 witness: the submodule has two stored operations and neither matches
C13_Witness ==
  LET c == TheCall
  IN /\ c.pc = "done" /\ c.operation # NoOperation /\ c.sub # NoEntry /\ ~c.failed
     /\ Len(c.resp.available) = 2
     /\ c.resp.kind = "error"

\* entry e matches the name typed by rule k: 1 exact name, 2 slug, 3 part of
\* the name, 4 part of the slug (case and outer white space ignored, white
\* space as dashes in slugs)
MatchesByRule(e, name, k) ==
  LET q == ToLowerCase(Trim(name))
  IN IF k = 1 THEN ToLowerCase(e.name) = q
     ELSE IF k = 2 THEN e.slug = ReplaceSpaces(q)
     ELSE IF k = 3 THEN Includes(ToLowerCase(e.name), q)
     ELSE Includes(e.slug, ReplaceSpaces(q))

\* the entries of the list that match by the earliest rule of 1..n any entry
\* matches by; none when no entry matches by any rule
BestMatches(list, name, n) ==
  {e \in Range(list) :
     \E k \in 1..n : /\ MatchesByRule(e, name, k)
                     /\ \A j \in 1..(k - 1), o \in Range(list) : ~MatchesByRule(o, name, j)}

\* C14: once the catalog is resolved, the module is one that matches by the
\* earliest applicable rule (exact name, slug, part of the name) and the
\* submodule one of that module that matches by the earliest applicable rule
\* (the same, then part of the slug), wherever they stand in the catalog, and
\* a target that can be matched so is resolved; when
\* no module or no submodule matches, the call ends with an error result
\* listing the names at that level, no page was fetched and the page store is
\* as it was before the call.
C14_ResolutionByRulePrecedence ==
  LET c == TheCall
      mods == BestMatches(cache.modules, c.module, 3)
  IN (c.pc = "done" /\ ValidArguments(c.module, c.submodule)
        /\ ~(c.failed /\ c.fetched = <<IndexUrl>>))
     => /\ c.sub # NoEntry
             => \E m \in mods : c.sub \in BestMatches(m.submodules, c.submodule, 4)
        /\ (mods # {} /\ \A m \in mods : BestMatches(m.submodules, c.submodule, 4) # {})
             => c.sub # NoEntry
        /\ mods = {}
             => /\ c.resp.kind = "error" /\ c.resp.level = "module"
                /\ c.resp.available = NameList(cache.modules)
                /\ PageFetches(c) = <<>> /\ db = c.before
        /\ (mods # {} /\ \A m \in mods : BestMatches(m.submodules, c.submodule, 4) = {})
             => /\ c.resp.kind = "error" /\ c.resp.level = "submodule"
                /\ \E m \in mods : c.resp.available = NameList(m.submodules)
                /\ PageFetches(c) = <<>> /\ db = c.before

\* C14 witness: the module found by its slug stands after a module whose name
\* holds the typed name, and the submodule is found by a part of its slug
C14_Witness ==
  LET c == TheCall
  IN /\ c.pc = "done" /\ c.sub = SubZ
     /\ cache.modules[2] = ModY /\ MatchesByRule(ModY, c.module, 2)
     /\ MatchesByRule(cache.modules[1], c.module, 3)
     /\ ~MatchesByRule(SubZ, c.submodule, 3)

\* a page is stored under the slug in d and is within its TTL at time t
WithinTtl(d, slug, t) ==
  \E p \in d.pages : p.slug = slug /\ t - p.fetched_at <= TTL_5_DAYS_MS

\* C15: a call without forceRefresh made when the catalog file, the page of
\* the submodule and, when the operation named is resolved, the page of the
\* operation all exist and are within the TTL fetches nothing and leaves the
\* page store and the catalog file exactly as they were.
C15_FreshCachesAnswerWithoutFetch ==
  LET c == TheCall
  IN (c.pc = "done" /\ ~c.force /\ c.sub # NoEntry
        /\ c.cache0.exists /\ now - c.cache0.mtime <= TTL_5_DAYS_MS
        /\ WithinTtl(c.before, c.sub.slug, now)
        /\ (c.stage = "op" => WithinTtl(c.before, c.op.slug, now)))
     => /\ c.fetched = <<>>
        /\ db = c.before
        /\ cache = c.cache0

\* C15 witness: an operation is named, the three caches are exactly as old as
\* the TTL, and the call is answered with sections
C15_Witness ==
  LET c == TheCall
  IN /\ c.pc = "done" /\ ~c.force /\ c.stage = "op"
     /\ c.cache0.exists /\ now - c.cache0.mtime = TTL_5_DAYS_MS
     /\ WithinTtl(c.before, c.sub.slug, now) /\ WithinTtl(c.before, c.op.slug, now)
     /\ now - PageOf(c.before, c.op.slug).fetched_at = TTL_5_DAYS_MS
     /\ c.resp.kind = "sections" /\ c.fetched = <<>>

NoDuplicates(s) == \A i, j \in 1..Len(s) : s[i] = s[j] => i = j

\* C16: within one request no url is fetched twice (the catalog, the
\* submodule page and the operation page are fetched at most once each, three
\* fetches at most), and a fetch that failed is the last one of its request,
\* which is then over with an error; the page it was for is as stale as before.
C16_NoRetryWithinRequest ==
  LET c == TheCall
  IN /\ NoDuplicates(c.fetched)
     /\ Len(c.fetched) <= 3
     /\ c.failed
          => /\ c.pc = "done"
             /\ c.resp.kind \in {"error", "thrown"}
             /\ c.fetched # <<>>
             /\ LET u == c.fetched[Len(c.fetched)]
                IN u # IndexUrl
                     => \E e \in {c.sub, c.op} :
                          /\ e # NoEntry /\ u = e.url
                          /\ StoredUnder(db, {e.slug}) = StoredUnder(c.before, {e.slug})

\* a request that fetched the catalog and the submodule page, and whose fetch of
\* the operation page failed
C16_Witness ==
  LET c == TheCall
  IN /\ c.pc = "done" /\ c.failed
     /\ Len(c.fetched) = 3
     /\ c.fetched[1] = IndexUrl
     /\ c.fetched[2] = c.sub.url
     /\ c.op # NoEntry /\ c.fetched[3] = c.op.url

\* the page url whose fetch failed in the call, <<>> if none did
FailedPage(c) ==
  IF c.failed /\ c.fetched # <<>> /\ c.fetched[Len(c.fetched)] # IndexUrl
  THEN <<c.fetched[Len(c.fetched)]>> ELSE <<>>

\* C17: when the fetch of the submodule page or of the operation page fails
\* during a refresh, the call returns an error result, and the page row, the
\* sections and the operations stored under that slug are as before the call.
C17_FailedRefreshIsErrorResultAndKeepsPage ==
  LET c == TheCall
  IN (c.pc = "done" /\ FailedPage(c) # <<>>)
       => /\ c.resp.kind = "error"
          /\ StoredUnder(db, {TargetSlug(c)}) = StoredUnder(c.before, {TargetSlug(c)})

\* the part of C17 about the store alone
C17_FailedRefreshKeepsPage ==
  LET c == TheCall
  IN (c.pc = "done" /\ FailedPage(c) # <<>>)
       => StoredUnder(db, {TargetSlug(c)}) = StoredUnder(c.before, {TargetSlug(c)})

\* C18: no call of handleAlegraGetEndpointDocs ends with its promise rejected:
\* every failure is the error result of that call.
C18_HandlerNeverThrows ==
  TheCall.pc = "done" => TheCall.resp.kind # "thrown"

\* the call has fetched the page of its target and found in it neither usable
\* embedded JSON nor text in the HTML body
FetchedWithoutContent(c) ==
  /\ ~c.failed /\ PageFetches(c) # <<>>
  /\ c.fetched[Len(c.fetched)] = TargetUrl(c)
  /\ c.html = EmptyPage

\* C19: a fetched page in which every extraction strategy finds nothing is not
\* chunked into sections nor stored, and the call ends with the error result
\* saying that no content was found.
C19_PageWithoutContentIsAnError ==
  LET c == TheCall
  IN /\ (c.pc \in {"store", "storeops"} /\ FetchedWithoutContent(c)) => c.secs = <<>>
     /\ (c.pc = "done" /\ FetchedWithoutContent(c))
          => /\ c.resp.kind = "error" /\ c.resp.level = "content"
             /\ StoredUnder(db, {TargetSlug(c)}) = StoredUnder(c.before, {TargetSlug(c)})

\* the call has ended after fetching the page of its target and storing it
\* with its sections
FreshlyPersisted(c) ==
  /\ c.pc = "done" /\ ~c.failed
  /\ PageFetches(c) # <<>> /\ c.fetched[Len(c.fetched)] = TargetUrl(c)
  /\ HasPage(db, TargetSlug(c))
  /\ PageOf(db, TargetSlug(c)).fetched_at = now
  /\ GetAllSections(db, TargetSlug(c)) # <<>>

\* C20: once a call has freshly fetched and stored a page, section vectors are
\* eventually stored (the embedder never fails in this model).
C20_VectorsFollowFreshPage ==
  FreshlyPersisted(TheCall) ~> (db.vec # {})

\* C21: however many embed() calls are in flight, the pipeline load was
\* started at most once, and exactly once as soon as a call was made before the
\* model was loaded; every call waiting for the model waits for that one load,
\* and every call that has the model has the pipeline of that load.
C21_SingleLoadForConcurrentCalls ==
  /\ Len(mem.promises) <= 1
  /\ \A r \in Embedders :
       /\ req[r].pc # "idle" => Len(mem.promises) = 1
       /\ req[r].pc = "await" => req[r].awaits \in {0, 1}
       /\ req[r].pc = "await" /\ req[r].awaits = 0 => req[r].model = 1 /\ mem._pipe = 1
       /\ req[r].pc = "run" => req[r].model = 1 /\ mem._pipe = 1 /\ mem._loading = 0

\* two calls made before the model was loaded have waited for load 1, which has
\* resolved, and a call made after that has the loaded pipeline at once
C21_Witness ==
  /\ mem._pipe = 1 /\ mem.promises = <<"resolved">>
  /\ \E r, q, x \in Embedders :
       /\ r # q
       /\ req[r].pc = "await" /\ req[r].awaits = 1
       /\ req[q].pc = "run" /\ req[q].awaits = 1
       /\ req[x].pc = "await" /\ req[x].awaits = 0 /\ req[x].model = 1

\* C22: isPageExpired(slug) is true exactly when no page row has the slug or
\* the row is more than 5 days (432,000,000 ms) old; isOperationPageExpired
\* answers by the same rule.
C22_ExpiredIffAbsentOrOlderThanFiveDays ==
  call.fn \in {"isPageExpired", "isOperationPageExpired"}
    => (call.out <=> \/ ~\E p \in db.pages : p.slug = call.slug
                     \/ \E p \in db.pages :
                          p.slug = call.slug /\ now - p.fetched_at > 5 * 24 * 60 * 60 * 1000)

\* a page aged exactly 5 days is reported as not expired
C22_Witness ==
  /\ call.fn = "isPageExpired" /\ ~call.out
  /\ \E p \in db.pages : p.slug = call.slug /\ now - p.fetched_at = 432000000

\* C30: after any sequence of storePage replacements and page deletions the
\* FTS table holds one entry per row of the section table, under the row's id
\* and with the row's text, and nothing else.
C30_FtsMirrorsSections ==
  db.fts = {[rowid |-> s.id, text |-> s.text] : s \in db.sections}

\* a page with sections was deleted while sections of another page remain
C30_Witness ==
  /\ call.fn = "deletePage" /\ call.changes = 1
  /\ db.sections # {}
  /\ db.seqSection > Cardinality(db.sections)
  /\ db.seqPage = MaxLibStores

\* C23: a call of the handler has fetched the catalog (and rewritten its cache
\* file) exactly when its forceRefresh was true or the cache file was missing
\* or older than 5 days when the call was made; otherwise the file is as it was.
C23_CatalogRefetchedIffForcedOrExpired ==
  LET c == TheCall
  IN (c.pc = "done" /\ ValidArguments(c.module, c.submodule) /\ ~c.failed)
       => /\ (c.fetched # <<>> /\ c.fetched[1] = IndexUrl)
               <=> (c.force \/ IndexIsExpired(c.cache0, now))
          /\ ~(c.force \/ IndexIsExpired(c.cache0, now)) => cache = c.cache0

\* C24: no section returned by splitIntoSections has content longer than
\* 2,500 characters.
C24_NoSectionOverMaxChars ==
  call.fn = "splitIntoSections"
    => \A i \in 1..Len(call.out) : ContentLen(call.out[i].paras) <= 2500

\* C25: when splitIntoSections returns more than one section, none of them has
\* content shorter than 80 characters.
C25_NoShortSectionAmongSeveral ==
  (call.fn = "splitIntoSections" /\ Len(call.out) > 1)
    => \A i \in 1..Len(call.out) : ContentLen(call.out[i].paras) >= 80

\* C26: a call with valid arguments has called client.fetchBlueprint (once)
\* exactly when forceRefresh was true, or the cache entry was expired, or no
\* document was cached when the call was made. A call that did not fetch
\* returned the cached document, did not call cache.set and left the cache file
\* as it was; a call whose fetch and cache.set succeeded left the fetched
\* document in the cache and returned it.
C26_FetchIffForcedExpiredOrMissing ==
  LET c == TheCall
      due == c.forceRefresh \/ ~c.cache0.exists
               \/ now - c.cache0.mtime > 24 * 60 * 60 * 1000
  IN (c.pc = "done" /\ c.apiName # <<>>)
       => /\ c.fetches = (IF due THEN 1 ELSE 0)
          /\ c.fetches = 0
               => /\ c.sets = 0 /\ cache = c.cache0
                  /\ c.resp.kind = "blueprint" /\ c.resp.doc = c.cache0.doc
          /\ (c.fetches = 1 /\ c.failed = "")
               => /\ c.sets = 1
                  /\ cache.exists /\ cache.doc = c.blueprint /\ cache.mtime = now
                  /\ c.resp.kind = "blueprint" /\ c.resp.doc = c.blueprint

\* a call that fetched only because the cached document was older than 24
\* hours, and replaced it by a different one
C26_Witness ==
  LET c == TheCall
  IN /\ c.pc = "done" /\ ~c.forceRefresh /\ c.cache0.exists
     /\ now - c.cache0.mtime = TTL_24_HOURS_MS + 1
     /\ c.fetches = 1 /\ c.sets = 1 /\ c.failed = ""
     /\ cache.doc # c.cache0.doc

C28_SamplingFailureNeverAnErrorResult ==
  \A r \in ToolCallers :
    (req[r].pc = "done" /\ req[r].fn = "callTool" /\ req[r].name = GENERATE_INTEGRATION
       /\ req[r].valid /\ req[r].sampling # "")
      => req[r].resp.kind # "error"

\* C29: the tools that a listTools call gives are the base tools followed by
\* exactly one integration tool: generate_api_integration when the handlers
\* have a server and the detection reported support, else
\* generate_api_integration_plan.
C29_ListsExactlyOneIntegrationTool ==
  \A r \in ToolCallers :
    (req[r].pc = "done" /\ req[r].fn = "listTools")
      => req[r].resp.tools =
           BaseTools \o <<IF mem.server /\ mem.detection = "true"
                          THEN GENERATE_INTEGRATION ELSE GENERATE_INTEGRATION_PLAN>>

\* a listTools and a callTool call have both waited for the one detection in
\* flight, and the list has the sampling tool
C29_Witness ==
  /\ req[1].pc = "done" /\ req[1].fn = "listTools" /\ req[1].awaited
  /\ req[1].resp.tools = BaseTools \o <<GENERATE_INTEGRATION>>
  /\ req[2].fn = "callTool" /\ req[2].awaited /\ req[2].pc = "agentContext"

\* the operation rows of ops that match q (the query trimmed and in lower case)
\* by rule k: 1 the name is q, 2 the slug is q with dashes for white space,
\* 3 the name contains q, 4 the slug contains that slug form
RuleMatches(ops, q, k) ==
  {i \in 1..Len(ops) :
     CASE k = 1 -> ToLowerCase(ops[i].name) = q
       [] k = 2 -> ops[i].slug = ReplaceSpaces(q)
       [] k = 3 -> Includes(ToLowerCase(ops[i].name), q)
       [] k = 4 -> Includes(ops[i].slug, ReplaceSpaces(q))}

\* C31: findOperation returns the operation of lowest position among those
\* that match by the earliest rule that any stored operation matches by (name
\* equal, slug equal, name containing, slug containing), and null exactly when
\* no operation matches by any rule.
C31_EarliestRuleThenPosition ==
  call.fn = "findOperation" =>
    LET ops == GetOperations(db, call.slug)
        q == ToLowerCase(Trim(call.query))
        rules == {k \in 1..4 : RuleMatches(ops, q, k) # {}}
    IN IF rules = {} THEN call.out = <<>>
       ELSE LET k == CHOOSE k \in rules : \A j \in rules : k <= j
                i == CHOOSE i \in RuleMatches(ops, q, k) :
                       \A j \in RuleMatches(ops, q, k) : i <= j
            IN call.out = <<ops[i]>>

\* an operation found by its exact name although an operation before it
\* matches by a later rule
C31_Witness ==
  /\ call.fn = "findOperation" /\ call.out # <<>>
  /\ LET ops == GetOperations(db, call.slug)
         q == ToLowerCase(Trim(call.query))
     IN /\ call.out[1].position > 0
        /\ ToLowerCase(call.out[1].name) = q
        /\ 1 \in RuleMatches(ops, q, 3) \cup RuleMatches(ops, q, 4)

\* C32: extractEndpointContent gives what the embedded JSON yields when it
\* yields something, and the text of the HTML only when it yields nothing;
\* nothing that the embedded JSON yields, from either of its two shapes, has
\* 150 characters or fewer.
C32_JsonFirstAndOver150Chars ==
  call.fn = "extractEndpointContent" =>
    IF call.html.next # <<>>
    THEN call.out = call.html.next /\ ContentLen(call.out) > 150
    ELSE call.out = ExtractContentFromHtml(call.html, ExtractUrl)

\* C33: extractOperationLinks gives the links of the first of its strategies
\* that finds any (children of the document, the node of the page in the
\* category tree, the sidebar object, the list nested in the page's sidebar
\* item), no links when none finds any, and only links of child pages of the
\* page itself.
C33_FirstStrategyAndOwnLinksOnly ==
  call.fn = "extractOperationLinks" =>
    LET data == call.html.data
        found == <<IF data.parsed THEN ExtractOpsFromDocChildren(data.candidates) ELSE <<>>,
                   IF data.parsed THEN ExtractOpsFromCategoryTree(data, LinksUrl) ELSE <<>>,
                   IF data.parsed THEN ExtractOpsFromSsrSidebar(data, LinksUrl) ELSE <<>>,
                   ExtractOpsFromNestedSidebarUl(call.html.items, LinksUrl)>>
        some == {k \in 1..4 : found[k] # <<>>}
    IN /\ call.out = IF some = {} THEN <<>>
                     ELSE found[CHOOSE k \in some : \A j \in some : k <= j]
       /\ \A i \in 1..Len(call.out) :
            SubSeq(call.out[i].slug, 1, Len(PageX)) = PageX

\* C34: no storePage call of a request throws, whatever another request does
\* to the same slug in between, and the slug never has more than one page row.
C34_ConcurrentStorePageCompletes ==
  /\ \A r \in Reqs :
       (req[r].pc = "done" /\ req[r].secs # <<>>) => req[r].resp # ThrownResp
  /\ Cardinality({p \in db.pages : p.slug = SubSlug}) <= 1

\* C35: every stored vector belongs to an existing section and is the
\* embedding of that section's own text, also when the page was replaced while
\* the embeddings were computed; embedding the page again changes no vector
\* of a page already embedded.
C35_VectorsBelongToTheirSections ==
  /\ \A v \in db.vec :
       \E s \in db.sections : s.id = v.section_id /\ v.embedding = Embed(s.text)
  /\ EmbedPageSections(EmbedPageSections(db, SubSlug), SubSlug) = EmbedPageSections(db, SubSlug)

\* one run has failed on vectors of sections replaced meanwhile, another has
\* stored the vectors of the new page
C35_Witness ==
  /\ req[1].pc = "done" /\ req[1].threw
  /\ req[2].pc = "done" /\ ~req[2].threw /\ req[2].pairs # <<>>
  /\ req[1].sections # req[2].sections
  /\ db.vec = Range(req[2].pairs)

\* C36: every sections response for a resolved target holds only sections taken
\* from a fetch of that target's own url, also when two catalog submodules, two
\* operations of different submodules, or an operation and a submodule have the
\* same slug: the page row the sections are read from was stored from the url
\* of the target
C36_SectionsFromOwnUrl ==
  \A r \in Reqs :
    (req[r].pc = "done" /\ req[r].resp.kind = "sections")
      => /\ HasPage(db, TargetSlug(req[r]))
         /\ PageOf(db, TargetSlug(req[r])).url = TargetUrl(req[r])

\* C37: storing the page of an operation under the operation's slug leaves the
\* page row, the sections and the operation list of the parent submodule as
\* they were, so that the operations stored at the last scrape of the submodule
\* are still returned by getOperations(submodule slug) after the request
C37_OperationPageLeavesSubmodule ==
  [][\A r \in Reqs :
       (PageStore(r) /\ req[r].stage = "op")
         => /\ HasPage(db', req[r].sub.slug)
            /\ PageOf(db', req[r].sub.slug) = PageOf(db, req[r].sub.slug)
            /\ GetAllSections(db', req[r].sub.slug) = GetAllSections(db, req[r].sub.slug)
            /\ GetOperations(db', req[r].sub.slug) = GetOperations(db, req[r].sub.slug)]_vars


\* C38: the load of the embedding pipeline is started at most once, also when
\* it fails: after a failed load every embed() call rejects with that failure
\* and starts no new load, and the promise chain of warmUpEmbedder never rejects
C38_FailedLoadIsNeverRetried ==
  /\ Len(mem.promises) <= 1
  /\ \A r \in Embedders :
       /\ req[r].chain # "rejected"
       /\ req[r].pc = "settled" => req[r].out # <<"rejected">>
       /\ (mem.promises = <<"rejected">>)
            => /\ mem._pipe = 0 /\ mem._loading = 1
               /\ req[r].pc # "run"
               /\ req[r].pc = "await" => req[r].awaits = 1
               /\ req[r].pc = "done" => req[r].out = <<"rejected">>

\* the one load has failed: a call of embed has rejected with the failure, the
\* chain of a warm-up has settled with undefined, and a further call waits on
\* the failed load
C38_Witness ==
  /\ mem.promises = <<"rejected">>
  /\ \E r, q, x \in Embedders :
       /\ req[r].pc = "done" /\ req[r].chain = "none" /\ req[r].out = <<"rejected">>
       /\ req[q].pc = "settled" /\ req[q].chain = "fulfilled" /\ req[q].out = <<>>
       /\ req[x].pc = "await" /\ req[x].awaits = 1

\* C39: when the catalog file is deleted at any moment, before a request or
\* between the expiry check of resolveAlegraIndex and its read, the request
\* goes on to fetch the catalog and rewrites the file: it throws only when the
\* fetch itself fails, and the catalog it returns is never null or empty
C39_DeletedCacheFileIsRefetched ==
  \A r \in Reqs :
    req[r].pc = "done" =>
      /\ req[r].out.kind \in {"index", "thrown"}
      /\ req[r].out.kind = "thrown" => req[r].failed
      /\ req[r].out.kind = "index" => req[r].out.modules \in Catalogs
      /\ (req[r].missingAt # "none" /\ ~req[r].failed)
           => req[r].fetched /\ req[r].wrote /\ req[r].out.kind = "index"

\* the file was fresh at the expiry check and gone at the read: the request has
\* fetched the catalog and written the file again
C39_Witness ==
  \E r \in Reqs :
    /\ req[r].pc = "done" /\ ~req[r].force /\ ~req[r].expired
    /\ req[r].missingAt \in {"getAccess", "read"}
    /\ req[r].fetched /\ req[r].wrote
    /\ req[r].out.kind = "index" /\ req[r].out.modules \in Catalogs
    /\ cache.exists

============================================================================
